---- MODULE Spec2Model ----
(*****************************************************************************)
(* lol.cpp: a displaced sphere given as a signed distance field, rendered by *)
(* sphere tracing into a framebuffer and encoded as 8-bit RGB.               *)
(*                                                                           *)
(* Numbers.  A C++ float is the pair <<m, e>> of integers that stands for m  *)
(* * 2^e, with 2^23 <= |m| < 2^24 (less for the subnormal numbers, whose e   *)
(* is -149) and <<0, 0>> for zero.  The operations on floats give the float  *)
(* nearest to the exact result, ties to the even mantissa, as the IEEE 754   *)
(* operations of the program do.  Infinities, NaN and the sign of zero are   *)
(* not represented: no operation of the program on the inputs of this model  *)
(* produces them.                                                            *)
(*                                                                           *)
(* Where the program computes in double (sin, the product and floor in hash, *)
(* the products and sums of fractal_brownian_motion and its division by      *)
(* 0.9375, tan and the division in dir_z), the model computes on numbers of  *)
(* Limbs limbs to the base 2^14, one limb before the point, and rounds to    *)
(* the 53 digits of a double where the program holds a double.               *)
(*                                                                           *)
(* sin and tan.  The C library does not promise the double nearest to the    *)
(* sine: its result is one of the two doubles that enclose the sine, and     *)
(* which of the two depends on the library.  SinTab, CosTab and SinCos hold  *)
(* the sines and cosines themselves, to 2^-98, and are not doubles;          *)
(* LibmRound takes the library's double from them.  The model has two        *)
(* libraries: "nearest" returns the nearer of the two doubles at every       *)
(* argument, "farther" the other one.  The library is chosen when the        *)
(* program starts (the variable libm) and is the last argument of every      *)
(* function that reaches sin or tan.  A library that returns the nearer      *)
(* double at some arguments and the other one elsewhere is between the two   *)
(* and is not modelled as such.  The tables give the sine and cosine of      *)
(* every float that is a multiple of 2^-36 (SinDomain), which every float of *)
(* magnitude 2^-13 or more is: hash is called with whole numbers of any      *)
(* magnitude, tan with half a field of view.  The sine of another float, and *)
(* the tangent outside [0, 1.57], have no value in the model, and TLC stops  *)
(* with an error if one is asked for.                                        *)
(*                                                                           *)
(* Evaluation.  C++ evaluates the arguments of a call before the call.  An   *)
(* operator written "CASE x = x -> e" has the value e, and TLC evaluates its *)
(* argument x before e, which keeps nested calls shallow.                    *)
(*****************************************************************************)
EXTENDS Integers, Sequences, FiniteSets, TLC

(*****************************************************************************)
(* float arithmetic                                                          *)
(*****************************************************************************)
Abs(x) == IF x < 0 THEN -x ELSE x

Max(x, y) == IF x < y THEN y ELSE x

Sign(x) == IF x < 0 THEN -1 ELSE 1

\* Number of binary digits of M, 0 <= M < 2^31.
BitLen(M) ==
  (IF M < 32768 THEN (IF M < 128 THEN (IF M < 8 THEN (IF M < 2 THEN (IF M < 1 THEN 0 ELSE 1) ELSE (IF M < 4 THEN 2 ELSE 3)) ELSE (IF M < 32 THEN (IF M < 16 THEN 4 ELSE 5) ELSE (IF M < 64 THEN 6 ELSE 7))) ELSE (IF M < 2048 THEN (IF M < 512 THEN (IF M < 256 THEN 8 ELSE 9) ELSE (IF M < 1024 THEN 10 ELSE 11)) ELSE (IF M < 8192 THEN (IF M < 4096 THEN 12 ELSE 13) ELSE (IF M < 16384 THEN 14 ELSE 15)))) ELSE (IF M < 8388608 THEN (IF M < 524288 THEN (IF M < 131072 THEN (IF M < 65536 THEN 16 ELSE 17) ELSE (IF M < 262144 THEN 18 ELSE 19)) ELSE (IF M < 2097152 THEN (IF M < 1048576 THEN 20 ELSE 21) ELSE (IF M < 4194304 THEN 22 ELSE 23))) ELSE (IF M < 134217728 THEN (IF M < 33554432 THEN (IF M < 16777216 THEN 24 ELSE 25) ELSE (IF M < 67108864 THEN 26 ELSE 27)) ELSE (IF M < 536870912 THEN (IF M < 268435456 THEN 28 ELSE 29) ELSE (IF M < 1073741824 THEN 30 ELSE 31)))))

\* 0.0f
f_0 == <<0, 0>>

\* binary digits of the mantissa of a float
MantBits == 24

\* the exponent of the smallest positive float, 2^-149
MinExp == -149

\* round q up, where r of 2 * half units (and more when sticky) were cut off it
RoundUp(q, r, half, sticky) == r > half \/ (r = half /\ (sticky \/ q % 2 = 1))

\* the float s * q * 2^E for q <= 2^MantBits
RoundCarry(s, q, E) ==
  IF q = 0 THEN f_0
  ELSE IF q = 2 ^ MantBits THEN <<s * (2 ^ (MantBits - 1)), E + 1>>
  ELSE <<s * q, E>>

\* s * (M + t) * 2^E rounded at the binary digit sh of M
RoundAt(s, M, E, sticky, sh) ==
  IF sh <= 0 THEN <<s * M * (2 ^ (-sh)), E + sh>>
  ELSE IF sh > 30 THEN f_0
  ELSE RoundCarry(s, (M \div (2 ^ sh))
                       + (IF RoundUp(M \div (2 ^ sh), M % (2 ^ sh), 2 ^ (sh - 1), sticky)
                          THEN 1 ELSE 0),
                  E + sh)

\* The float nearest to s * (M + t) * 2^E, ties to even, where 0 <= t < 1
\* and t > 0 exactly when sticky.
RoundF(s, M, E, sticky) ==
  CASE M = M ->
    IF M = 0 THEN f_0
    ELSE RoundAt(s, M, E, sticky, Max(BitLen(M) - MantBits, MinExp - E))

\* the conversion of an integer to float
FromInt(k) == RoundF(Sign(k), Abs(k), 0, FALSE)

\* -a
FNeg(a) == <<-a[1], a[2]>>

\* The same number with a mantissa of MantBits digits, whatever the exponent:
\* m * 2^e for a mantissa m # 0 of at most MantBits digits.
FNorm(a) ==
  << a[1] * (2 ^ (MantBits - BitLen(Abs(a[1])))), a[2] - (MantBits - BitLen(Abs(a[1]))) >>

\* The product of two mantissas of MantBits digits is formed from their halves of 12 digits as
\* hi * 2^24 + lo and rounded from the top 30 digits and the rest.
FMulTop(s, hi, lo, E) == RoundF(s, hi * 64 + (lo \div 262144), E + 18, lo % 262144 # 0)

FMulParts(s, A, B, E) ==
  FMulTop(s,
          (A \div 4096) * (B \div 4096)
            + (((A \div 4096) * (B % 4096) + (A % 4096) * (B \div 4096)) \div 4096)
            + (((A % 4096) * (B % 4096)
                + (((A \div 4096) * (B % 4096) + (A % 4096) * (B \div 4096)) % 4096) * 4096)
               \div 16777216),
          ((A % 4096) * (B % 4096)
            + (((A \div 4096) * (B % 4096) + (A % 4096) * (B \div 4096)) % 4096) * 4096)
           % 16777216,
          E)

\* a * b
FMul(a, b) ==
  CASE a = a /\ b = b ->
    IF a[1] = 0 \/ b[1] = 0 THEN f_0
    ELSE FMulParts(Sign(a[1]) * Sign(b[1]), Abs(FNorm(a)[1]), Abs(FNorm(b)[1]),
                   FNorm(a)[2] + FNorm(b)[2])

\* |x| + |y| or |x| - |y| with five guard digits, for |x| >= |y| and the
\* difference diff of their exponents
FAddAligned(x, y, diff) ==
  IF diff > 26 THEN RoundF(Sign(x[1]), Abs(x[1]), x[2], FALSE)
  ELSE IF Sign(x[1]) = Sign(y[1])
    THEN RoundF(Sign(x[1]), Abs(x[1]) * 32 + ((Abs(y[1]) * 32) \div (2 ^ diff)), x[2] - 5,
                (Abs(y[1]) * 32) % (2 ^ diff) # 0)
  ELSE RoundF(Sign(x[1]),
              Abs(x[1]) * 32 - ((Abs(y[1]) * 32) \div (2 ^ diff))
                - (IF (Abs(y[1]) * 32) % (2 ^ diff) # 0 THEN 1 ELSE 0),
              x[2] - 5, (Abs(y[1]) * 32) % (2 ^ diff) # 0)

\* |a| < |b|, for floats (or for two numbers with mantissas of MantBits digits)
MagLess(a, b) ==
  IF a[1] = 0 THEN b[1] # 0
  ELSE IF b[1] = 0 THEN FALSE
  ELSE a[2] < b[2] \/ (a[2] = b[2] /\ Abs(a[1]) < Abs(b[1]))

FAddNorm(a, b) ==
  IF MagLess(a, b) THEN FAddAligned(b, a, b[2] - a[2]) ELSE FAddAligned(a, b, a[2] - b[2])

\* The float nearest to a + b.  a and b are floats, or numbers m * 2^e with
\* a mantissa of at most MantBits digits and an exponent below that of a
\* float: the sum is rounded once.
FAdd(a, b) ==
  CASE a = a /\ b = b ->
    IF a[1] = 0 THEN RoundF(Sign(b[1]), Abs(b[1]), b[2], FALSE)
    ELSE IF b[1] = 0 THEN RoundF(Sign(a[1]), Abs(a[1]), a[2], FALSE)
    ELSE FAddNorm(FNorm(a), FNorm(b))

\* a - b
FSub(a, b) == FAdd(a, FNeg(b))

\* a < b
FLess(a, b) ==
  IF a[1] < 0 /\ b[1] >= 0 THEN TRUE
  ELSE IF a[1] >= 0 /\ b[1] < 0 THEN FALSE
  ELSE IF a[1] >= 0 THEN MagLess(a, b) ELSE MagLess(b, a)

\* std::max(a, b): (a < b) ? b : a
FMax(a, b) == IF FLess(a, b) THEN b ELSE a

\* std::min(a, b): (b < a) ? b : a
FMin(a, b) == IF FLess(b, a) THEN b ELSE a

\* k more groups of seven digits of the quotient q with remainder r, then
\* the float nearest to s * (q + r / d) * 2^E
RECURSIVE FDivStep(_, _, _, _, _, _)
FDivStep(s, q, r, d, k, E) ==
  IF k = 0 THEN RoundF(s, q, E, r # 0)
  ELSE FDivStep(s, q * 128 + ((r * 128) \div d), (r * 128) % d, d, k - 1, E)

\* the quotient of two mantissas of MantBits digits, to 28 digits after the point
FDivNorm(a, b) ==
  FDivStep(Sign(a[1]) * Sign(b[1]), Abs(a[1]) \div Abs(b[1]), Abs(a[1]) % Abs(b[1]),
           Abs(b[1]), 4, a[2] - b[2] - 28)

\* a / b for b # 0
FDiv(a, b) ==
  CASE a = a /\ b = b ->
    IF a[1] = 0 THEN f_0 ELSE FDivNorm(FNorm(a), FNorm(b))

\* r becomes the largest multiple of step with a square of at most m; the
\* squares stay within 32 bits
RECURSIVE ISqrtIn(_, _, _)
ISqrtIn(m, r, step) ==
  IF step = 0 THEN r
  ELSE ISqrtIn(m, r + step * Cardinality({d \in 1 .. 15 :
                                            /\ r + d * step <= 46340
                                            /\ (r + d * step) * (r + d * step) <= m}),
               step \div 16)

\* Largest r with r * r <= m, for 0 <= m < 2^26.
ISqrt(m) == CASE m = m -> ISqrtIn(m, 0, 4096)

\* the root R * 2^k + d and its remainder, for the estimate d of the next k
\* digits or, when that is one too large, d - 1
SqrtPick(R, rem, k, d) ==
  IF 2 * R * (2 ^ k) * d + d * d > rem * (4 ^ k)
  THEN << R * (2 ^ k) + d - 1,
          rem * (4 ^ k) - 2 * R * (2 ^ k) * (d - 1) - (d - 1) * (d - 1) >>
  ELSE << R * (2 ^ k) + d, rem * (4 ^ k) - 2 * R * (2 ^ k) * d - d * d >>

\* Extends the root R of N (N = R * R + rem) to the root of N * 4^k.
SqrtExtend(Rr, k) ==
  CASE Rr = Rr -> SqrtPick(Rr[1], Rr[2], k,
                      IF (Rr[2] * (2 ^ k)) \div (2 * Rr[1]) < 2 ^ k - 1
                      THEN (Rr[2] * (2 ^ k)) \div (2 * Rr[1]) ELSE 2 ^ k - 1)

SqrtRound(Rr, E) == RoundF(1, Rr[1], E, Rr[2] # 0)

\* the square root of m * 2^e for even e and 2^23 <= m < 2^25: 13 more
\* digits of the root of m
SqrtEven(m, e) ==
  SqrtRound(SqrtExtend(SqrtExtend(SqrtExtend(<<ISqrt(m), m - ISqrt(m) * ISqrt(m)>>, 7), 4), 2),
            (e \div 2) - 13)

\* the square root of m * 2^e, where m * 2^s has MantBits digits
SqrtNorm(m, e, s) ==
  IF (e - s) % 2 = 0 THEN SqrtEven(m * (2 ^ s), e - s)
  ELSE SqrtEven(m * (2 ^ (s + 1)), e - s - 1)

\* std::sqrt(a) for a >= 0
FSqrt(a) ==
  CASE a = a ->
    IF a[1] <= 0 THEN f_0 ELSE SqrtNorm(a[1], a[2], MantBits - BitLen(a[1]))

\* floor(a)
FFloor(a) ==
  IF a[2] >= 0 THEN a
  ELSE IF a[2] <= -MantBits THEN (IF a[1] < 0 THEN FromInt(-1) ELSE f_0)
  ELSE FromInt(a[1] \div (2 ^ (-a[2])))

\* The integer part of a float, rounded towards zero.
FTrunc(a) ==
  IF a[2] >= 0 THEN a[1] * (2 ^ a[2])
  ELSE IF a[2] <= -MantBits THEN 0
  ELSE Sign(a[1]) * (Abs(a[1]) \div (2 ^ (-a[2])))

(***************************************************************************)
(* double arithmetic: sin, cos, tan, the quotients, and hash (lines 49-51) *)
(***************************************************************************)
\* SinTab[k][d] and CosTab[k][d] are the sine and cosine of d * 64^(k - 7),
\* k in 1 .. 28, d in 1 .. 63, rounded down to a multiple of 2^-98.
SinTab ==
  <<
    << <<0, 0, 0, 63, 16383, 16383, 16383, 16383>>,
       <<0, 0, 0, 127, 16383, 16383, 16383, 16383>>,
       <<0, 0, 0, 191, 16383, 16383, 16383, 16383>>,
       <<0, 0, 0, 255, 16383, 16383, 16383, 16383>>,
       <<0, 0, 0, 319, 16383, 16383, 16383, 16383>>,
       <<0, 0, 0, 383, 16383, 16383, 16383, 16383>>,
       <<0, 0, 0, 447, 16383, 16383, 16383, 16383>>,
       <<0, 0, 0, 511, 16383, 16383, 16383, 16383>>,
       <<0, 0, 0, 575, 16383, 16383, 16383, 16383>>,
       <<0, 0, 0, 639, 16383, 16383, 16383, 16383>>,
       <<0, 0, 0, 703, 16383, 16383, 16383, 16383>>,
       <<0, 0, 0, 767, 16383, 16383, 16383, 16383>>,
       <<0, 0, 0, 831, 16383, 16383, 16383, 16383>>,
       <<0, 0, 0, 895, 16383, 16383, 16383, 16383>>,
       <<0, 0, 0, 959, 16383, 16383, 16383, 16383>>,
       <<0, 0, 0, 1023, 16383, 16383, 16383, 16383>>,
       <<0, 0, 0, 1087, 16383, 16383, 16383, 16383>>,
       <<0, 0, 0, 1151, 16383, 16383, 16383, 16383>>,
       <<0, 0, 0, 1215, 16383, 16383, 16383, 16382>>,
       <<0, 0, 0, 1279, 16383, 16383, 16383, 16382>>,
       <<0, 0, 0, 1343, 16383, 16383, 16383, 16382>>,
       <<0, 0, 0, 1407, 16383, 16383, 16383, 16382>>,
       <<0, 0, 0, 1471, 16383, 16383, 16383, 16382>>,
       <<0, 0, 0, 1535, 16383, 16383, 16383, 16381>>,
       <<0, 0, 0, 1599, 16383, 16383, 16383, 16381>>,
       <<0, 0, 0, 1663, 16383, 16383, 16383, 16381>>,
       <<0, 0, 0, 1727, 16383, 16383, 16383, 16380>>,
       <<0, 0, 0, 1791, 16383, 16383, 16383, 16380>>,
       <<0, 0, 0, 1855, 16383, 16383, 16383, 16380>>,
       <<0, 0, 0, 1919, 16383, 16383, 16383, 16379>>,
       <<0, 0, 0, 1983, 16383, 16383, 16383, 16379>>,
       <<0, 0, 0, 2047, 16383, 16383, 16383, 16378>>,
       <<0, 0, 0, 2111, 16383, 16383, 16383, 16378>>,
       <<0, 0, 0, 2175, 16383, 16383, 16383, 16377>>,
       <<0, 0, 0, 2239, 16383, 16383, 16383, 16377>>,
       <<0, 0, 0, 2303, 16383, 16383, 16383, 16376>>,
       <<0, 0, 0, 2367, 16383, 16383, 16383, 16375>>,
       <<0, 0, 0, 2431, 16383, 16383, 16383, 16375>>,
       <<0, 0, 0, 2495, 16383, 16383, 16383, 16374>>,
       <<0, 0, 0, 2559, 16383, 16383, 16383, 16373>>,
       <<0, 0, 0, 2623, 16383, 16383, 16383, 16372>>,
       <<0, 0, 0, 2687, 16383, 16383, 16383, 16371>>,
       <<0, 0, 0, 2751, 16383, 16383, 16383, 16371>>,
       <<0, 0, 0, 2815, 16383, 16383, 16383, 16370>>,
       <<0, 0, 0, 2879, 16383, 16383, 16383, 16369>>,
       <<0, 0, 0, 2943, 16383, 16383, 16383, 16368>>,
       <<0, 0, 0, 3007, 16383, 16383, 16383, 16367>>,
       <<0, 0, 0, 3071, 16383, 16383, 16383, 16366>>,
       <<0, 0, 0, 3135, 16383, 16383, 16383, 16364>>,
       <<0, 0, 0, 3199, 16383, 16383, 16383, 16363>>,
       <<0, 0, 0, 3263, 16383, 16383, 16383, 16362>>,
       <<0, 0, 0, 3327, 16383, 16383, 16383, 16361>>,
       <<0, 0, 0, 3391, 16383, 16383, 16383, 16359>>,
       <<0, 0, 0, 3455, 16383, 16383, 16383, 16358>>,
       <<0, 0, 0, 3519, 16383, 16383, 16383, 16356>>,
       <<0, 0, 0, 3583, 16383, 16383, 16383, 16355>>,
       <<0, 0, 0, 3647, 16383, 16383, 16383, 16353>>,
       <<0, 0, 0, 3711, 16383, 16383, 16383, 16352>>,
       <<0, 0, 0, 3775, 16383, 16383, 16383, 16350>>,
       <<0, 0, 0, 3839, 16383, 16383, 16383, 16348>>,
       <<0, 0, 0, 3903, 16383, 16383, 16383, 16347>>,
       <<0, 0, 0, 3967, 16383, 16383, 16383, 16345>>,
       <<0, 0, 0, 4031, 16383, 16383, 16383, 16343>> >>,
    << <<0, 0, 0, 4095, 16383, 16383, 16383, 16341>>,
       <<0, 0, 0, 8191, 16383, 16383, 16383, 16042>>,
       <<0, 0, 0, 12287, 16383, 16383, 16383, 15232>>,
       <<0, 0, 0, 16383, 16383, 16383, 16383, 13653>>,
       <<0, 0, 1, 4095, 16383, 16383, 16383, 11050>>,
       <<0, 0, 1, 8191, 16383, 16383, 16383, 7168>>,
       <<0, 0, 1, 12287, 16383, 16383, 16383, 1749>>,
       <<0, 0, 1, 16383, 16383, 16383, 16382, 10922>>,
       <<0, 0, 2, 4095, 16383, 16383, 16382, 1664>>,
       <<0, 0, 2, 8191, 16383, 16383, 16381, 6485>>,
       <<0, 0, 2, 12287, 16383, 16383, 16380, 8746>>,
       <<0, 0, 2, 16383, 16383, 16383, 16379, 8192>>,
       <<0, 0, 3, 4095, 16383, 16383, 16378, 4565>>,
       <<0, 0, 3, 8191, 16383, 16383, 16376, 13994>>,
       <<0, 0, 3, 12287, 16383, 16383, 16375, 3456>>,
       <<0, 0, 3, 16383, 16383, 16383, 16373, 5461>>,
       <<0, 0, 4, 4095, 16383, 16383, 16371, 3370>>,
       <<0, 0, 4, 8191, 16383, 16383, 16368, 13312>>,
       <<0, 0, 4, 12287, 16383, 16383, 16366, 2261>>,
       <<0, 0, 4, 16383, 16383, 16383, 16363, 2730>>,
       <<0, 0, 5, 4095, 16383, 16383, 16359, 14464>>,
       <<0, 0, 5, 8191, 16383, 16383, 16356, 4437>>,
       <<0, 0, 5, 12287, 16383, 16383, 16352, 5162>>,
       <<0, 0, 5, 16383, 16383, 16383, 16348, 0>>,
       <<0, 0, 6, 4095, 16383, 16383, 16343, 5077>>,
       <<0, 0, 6, 8191, 16383, 16383, 16338, 3754>>,
       <<0, 0, 6, 12287, 16383, 16383, 16332, 12160>>,
       <<0, 0, 6, 16383, 16383, 16383, 16326, 13653>>,
       <<0, 0, 7, 4095, 16383, 16383, 16320, 7978>>,
       <<0, 0, 7, 8191, 16383, 16383, 16313, 11264>>,
       <<0, 0, 7, 12287, 16383, 16383, 16306, 6869>>,
       <<0, 0, 7, 16383, 16383, 16383, 16298, 10922>>,
       <<0, 0, 8, 4095, 16383, 16383, 16290, 6784>>,
       <<0, 0, 8, 8191, 16383, 16383, 16281, 10581>>,
       <<0, 0, 8, 12287, 16383, 16383, 16272, 5674>>,
       <<0, 0, 8, 16383, 16383, 16383, 16262, 8192>>,
       <<0, 0, 9, 4095, 16383, 16383, 16252, 1493>>,
       <<0, 0, 9, 8191, 16383, 16383, 16241, 1706>>,
       <<0, 0, 9, 12287, 16383, 16383, 16229, 8576>>,
       <<0, 0, 9, 16383, 16383, 16383, 16217, 5461>>,
       <<0, 0, 10, 4095, 16383, 16383, 16204, 8490>>,
       <<0, 0, 10, 8191, 16383, 16383, 16191, 1024>>,
       <<0, 0, 10, 12287, 16383, 16383, 16176, 15573>>,
       <<0, 0, 10, 16383, 16383, 16383, 16162, 2730>>,
       <<0, 0, 11, 4095, 16383, 16383, 16146, 11392>>,
       <<0, 0, 11, 8191, 16383, 16383, 16130, 8533>>,
       <<0, 0, 11, 12287, 16383, 16383, 16113, 10282>>,
       <<0, 0, 11, 16383, 16383, 16383, 16096, 0>>,
       <<0, 0, 12, 4095, 16383, 16383, 16077, 10197>>,
       <<0, 0, 12, 8191, 16383, 16383, 16058, 7850>>,
       <<0, 0, 12, 12287, 16383, 16383, 16038, 9088>>,
       <<0, 0, 12, 16383, 16383, 16383, 16017, 13653>>,
       <<0, 0, 13, 4095, 16383, 16383, 15996, 4906>>,
       <<0, 0, 13, 8191, 16383, 16383, 15973, 15360>>,
       <<0, 0, 13, 12287, 16383, 16383, 15950, 11989>>,
       <<0, 0, 13, 16383, 16383, 16383, 15926, 10922>>,
       <<0, 0, 14, 4095, 16383, 16383, 15901, 11904>>,
       <<0, 0, 14, 8191, 16383, 16383, 15875, 14677>>,
       <<0, 0, 14, 12287, 16383, 16383, 15849, 2602>>,
       <<0, 0, 14, 16383, 16383, 16383, 15821, 8192>>,
       <<0, 0, 15, 4095, 16383, 16383, 15792, 14805>>,
       <<0, 0, 15, 8191, 16383, 16383, 15763, 5802>>,
       <<0, 0, 15, 12287, 16383, 16383, 15732, 13696>> >>,
    << <<0, 0, 15, 16383, 16383, 16383, 15701, 5461>>,
       <<0, 0, 31, 16383, 16383, 16383, 10922, 10922>>,
       <<0, 0, 47, 16383, 16383, 16382, 14336, 0>>,
       <<0, 0, 63, 16383, 16383, 16381, 5461, 5461>>,
       <<0, 0, 79, 16383, 16383, 16378, 12970, 10922>>,
       <<0, 0, 95, 16383, 16383, 16375, 0, 0>>,
       <<0, 0, 111, 16383, 16383, 16369, 11605, 5461>>,
       <<0, 0, 127, 16383, 16383, 16362, 10922, 10922>>,
       <<0, 0, 143, 16383, 16383, 16353, 10240, 0>>,
       <<0, 0, 159, 16383, 16383, 16342, 5461, 5461>>,
       <<0, 0, 175, 16383, 16383, 16328, 8874, 10922>>,
       <<0, 0, 191, 16383, 16383, 16312, 0, 0>>,
       <<0, 0, 207, 16383, 16383, 16292, 7509, 5461>>,
       <<0, 0, 223, 16383, 16383, 16269, 10922, 10922>>,
       <<0, 0, 239, 16383, 16383, 16243, 6144, 0>>,
       <<0, 0, 255, 16383, 16383, 16213, 5461, 5461>>,
       <<0, 0, 271, 16383, 16383, 16179, 4778, 10922>>,
       <<0, 0, 287, 16383, 16383, 16141, 0, 0>>,
       <<0, 0, 303, 16383, 16383, 16098, 3413, 5461>>,
       <<0, 0, 319, 16383, 16383, 16050, 10922, 10922>>,
       <<0, 0, 335, 16383, 16383, 15998, 2048, 0>>,
       <<0, 0, 351, 16383, 16383, 15940, 5461, 5461>>,
       <<0, 0, 367, 16383, 16383, 15877, 682, 10922>>,
       <<0, 0, 383, 16383, 16383, 15808, 0, 0>>,
       <<0, 0, 399, 16383, 16383, 15732, 15701, 5461>>,
       <<0, 0, 415, 16383, 16383, 15651, 10922, 10922>>,
       <<0, 0, 431, 16383, 16383, 15563, 14336, 0>>,
       <<0, 0, 447, 16383, 16383, 15469, 5461, 5461>>,
       <<0, 0, 463, 16383, 16383, 15367, 12970, 10922>>,
       <<0, 0, 479, 16383, 16383, 15259, 0, 0>>,
       <<0, 0, 495, 16383, 16383, 15142, 11605, 5461>>,
       <<0, 0, 511, 16383, 16383, 15018, 10922, 10922>>,
       <<0, 0, 527, 16383, 16383, 14886, 10240, 0>>,
       <<0, 0, 543, 16383, 16383, 14746, 5461, 5461>>,
       <<0, 0, 559, 16383, 16383, 14597, 8874, 10922>>,
       <<0, 0, 575, 16383, 16383, 14440, 0, 0>>,
       <<0, 0, 591, 16383, 16383, 14273, 7509, 5461>>,
       <<0, 0, 607, 16383, 16383, 14097, 10922, 10922>>,
       <<0, 0, 623, 16383, 16383, 13912, 6144, 0>>,
       <<0, 0, 639, 16383, 16383, 13717, 5461, 5461>>,
       <<0, 0, 655, 16383, 16383, 13512, 4778, 10922>>,
       <<0, 0, 671, 16383, 16383, 13297, 0, 0>>,
       <<0, 0, 687, 16383, 16383, 13071, 3413, 5461>>,
       <<0, 0, 703, 16383, 16383, 12834, 10922, 10922>>,
       <<0, 0, 719, 16383, 16383, 12587, 2048, 0>>,
       <<0, 0, 735, 16383, 16383, 12328, 5461, 5461>>,
       <<0, 0, 751, 16383, 16383, 12058, 682, 10923>>,
       <<0, 0, 767, 16383, 16383, 11776, 0, 0>>,
       <<0, 0, 783, 16383, 16383, 11481, 15701, 5461>>,
       <<0, 0, 799, 16383, 16383, 11175, 10922, 10923>>,
       <<0, 0, 815, 16383, 16383, 10856, 14336, 0>>,
       <<0, 0, 831, 16383, 16383, 10525, 5461, 5462>>,
       <<0, 0, 847, 16383, 16383, 10180, 12970, 10923>>,
       <<0, 0, 863, 16383, 16383, 9823, 0, 0>>,
       <<0, 0, 879, 16383, 16383, 9451, 11605, 5462>>,
       <<0, 0, 895, 16383, 16383, 9066, 10922, 10923>>,
       <<0, 0, 911, 16383, 16383, 8667, 10240, 1>>,
       <<0, 0, 927, 16383, 16383, 8254, 5461, 5462>>,
       <<0, 0, 943, 16383, 16383, 7826, 8874, 10924>>,
       <<0, 0, 959, 16383, 16383, 7384, 0, 1>>,
       <<0, 0, 975, 16383, 16383, 6926, 7509, 5463>>,
       <<0, 0, 991, 16383, 16383, 6453, 10922, 10924>>,
       <<0, 0, 1007, 16383, 16383, 5965, 6144, 1>> >>,
    << <<0, 0, 1023, 16383, 16383, 5461, 5461, 5463>>,
       <<0, 0, 2047, 16383, 16378, 10922, 10922, 10990>>,
       <<0, 0, 3071, 16383, 16366, 0, 0, 518>>,
       <<0, 0, 4095, 16383, 16341, 5461, 5461, 7645>>,
       <<0, 0, 5119, 16383, 16300, 10922, 10923, 1205>>,
       <<0, 0, 6143, 16383, 16240, 0, 1, 204>>,
       <<0, 0, 7167, 16383, 16155, 5461, 5463, 8548>>,
       <<0, 0, 8191, 16383, 16042, 10922, 10926, 15291>>,
       <<0, 0, 9215, 16383, 15898, 0, 7, 11283>>,
       <<0, 0, 10239, 16383, 15717, 5461, 5474, 5802>>,
       <<0, 0, 11263, 16383, 15496, 10922, 10943, 10434>>,
       <<0, 0, 12287, 16383, 15232, 0, 32, 6553>>,
       <<0, 0, 13311, 16383, 14919, 5461, 5509, 11121>>,
       <<0, 0, 14335, 16383, 14554, 10922, 10992, 11400>>,
       <<0, 0, 15359, 16383, 14134, 0, 98, 14367>>,
       <<0, 0, 16383, 16383, 13653, 5461, 5597, 14199>>,
       <<0, 1, 1023, 16383, 13108, 10922, 11107, 8910>>,
       <<0, 1, 2047, 16383, 12496, 0, 246, 614>>,
       <<0, 1, 3071, 16383, 11811, 5461, 5783, 12157>>,
       <<0, 1, 4095, 16383, 11050, 10922, 11339, 5461>>,
       <<0, 1, 5119, 16383, 10210, 0, 531, 12844>>,
       <<0, 1, 6143, 16383, 9285, 5461, 6132, 6212>>,
       <<0, 1, 7167, 16383, 8272, 10922, 11760, 11995>>,
       <<0, 1, 8191, 16383, 7168, 0, 1036, 13107>>,
       <<0, 1, 9215, 16383, 5967, 5461, 6732, 14730>>,
       <<0, 1, 10239, 16383, 4666, 10922, 12469, 11810>>,
       <<0, 1, 11263, 16383, 3262, 0, 1868, 5689>>,
       <<0, 1, 12287, 16383, 1749, 5461, 7702, 4369>>,
       <<0, 1, 13311, 16383, 124, 10922, 13593, 6376>>,
       <<0, 1, 14335, 16382, 14768, 0, 3164, 1023>>,
       <<0, 1, 15359, 16382, 12907, 5461, 9189, 1431>>,
       <<0, 1, 16383, 16382, 10922, 10922, 15291, 12014>>,
       <<0, 2, 1023, 16382, 8810, 0, 5095, 12358>>,
       <<0, 2, 2047, 16382, 6565, 5461, 11377, 6621>>,
       <<0, 2, 3071, 16382, 4184, 10923, 1377, 7413>>,
       <<0, 2, 4095, 16382, 1664, 0, 7873, 3276>>,
       <<0, 2, 5119, 16381, 15383, 5461, 14490, 8100>>,
       <<0, 2, 6143, 16381, 12570, 10923, 4855, 12219>>,
       <<0, 2, 7167, 16381, 9606, 0, 11747, 15443>>,
       <<0, 2, 8191, 16381, 6485, 5462, 2410, 10922>>,
       <<0, 2, 9215, 16381, 3204, 10923, 9624, 1793>>,
       <<0, 2, 10239, 16380, 16144, 1, 633, 1433>>,
       <<0, 2, 11263, 16380, 12531, 5462, 8219, 944>>,
       <<0, 2, 12287, 16380, 8746, 10923, 16012, 2184>>,
       <<0, 2, 13311, 16380, 4786, 1, 7643, 1631>>,
       <<0, 2, 14335, 16380, 645, 5462, 15895, 7031>>,
       <<0, 2, 15359, 16379, 12704, 10924, 8017, 4878>>,
       <<0, 2, 16383, 16379, 8192, 2, 409, 9829>>,
       <<0, 3, 1023, 16379, 3487, 5463, 9473, 15805>>,
       <<0, 3, 2047, 16378, 14970, 10925, 2460, 12628>>,
       <<0, 3, 3071, 16378, 9870, 2, 12157, 2668>>,
       <<0, 3, 4095, 16378, 4565, 5464, 5815, 1091>>,
       <<0, 3, 5119, 16377, 15436, 10925, 16223, 3354>>,
       <<0, 3, 6143, 16377, 9712, 3, 10635, 1842>>,
       <<0, 3, 7167, 16377, 3771, 5465, 5457, 2505>>,
       <<0, 3, 8191, 16376, 13994, 10927, 712, 8736>>,
       <<0, 3, 9215, 16376, 7610, 4, 12809, 5240>>,
       <<0, 3, 10239, 16376, 997, 5466, 9004, 7439>>,
       <<0, 3, 11263, 16375, 10536, 10928, 5707, 12582>>,
       <<0, 3, 12287, 16375, 3456, 6, 2945, 16381>>,
       <<0, 3, 13311, 16374, 12519, 5468, 746, 13269>>,
       <<0, 3, 14335, 16374, 4954, 10929, 15522, 13036>>,
       <<0, 3, 15359, 16373, 13526, 7, 14535, 8323>> >>,
    << <<0, 3, 16383, 16373, 5461, 5469, 14199, 7642>>,
       <<0, 7, 16383, 16298, 10922, 11195, 12014, 14875>>,
       <<0, 11, 16383, 16096, 0, 2073, 9829, 15828>>,
       <<0, 15, 16383, 15701, 5461, 14199, 7642, 10090>>,
       <<0, 19, 16383, 15050, 10924, 4821, 5445, 13637>>,
       <<0, 23, 16383, 14080, 4, 819, 3221, 4213>>,
       <<0, 27, 16383, 12725, 5470, 1425, 928, 14176>>,
       <<0, 31, 16383, 10922, 10939, 12014, 14875, 10350>>,
       <<0, 35, 16383, 8608, 30, 12364, 12158, 3248>>,
       <<0, 39, 16383, 5717, 5513, 6826, 8938, 8844>>,
       <<0, 43, 16383, 2186, 11006, 8968, 4871, 10347>>,
       <<0, 47, 16382, 14336, 129, 9829, 15828, 1886>>,
       <<0, 51, 16382, 9333, 5654, 11715, 8302, 15824>>,
       <<0, 55, 16382, 3498, 11202, 12832, 14037, 2604>>,
       <<0, 59, 16381, 13152, 395, 8317, 15251, 5516>>,
       <<0, 63, 16381, 5461, 6007, 7642, 10090, 7778>>,
       <<0, 67, 16380, 13130, 11662, 2870, 12518, 9002>>,
       <<0, 71, 16380, 3328, 984, 2450, 3046, 3342>>,
       <<0, 75, 16379, 8757, 6750, 15852, 10514, 6814>>,
       <<0, 79, 16378, 12970, 12589, 5445, 13637, 2678>>,
       <<0, 83, 16377, 15904, 2127, 2205, 6366, 1523>>,
       <<0, 87, 16377, 1109, 8145, 8434, 14084, 3040>>,
       <<0, 91, 16376, 1290, 14274, 15173, 11475, 6956>>,
       <<0, 95, 16375, 0, 4147, 3221, 4213, 7577>>,
       <<0, 99, 16373, 13557, 10547, 9696, 12324, 4723>>,
       <<0, 103, 16372, 9131, 726, 14375, 4373, 14663>>,
       <<0, 107, 16371, 3040, 7473, 6247, 11855, 15518>>,
       <<0, 111, 16369, 11605, 14425, 928, 14178, 7350>>,
       <<0, 115, 16368, 1995, 5221, 8913, 3848, 6724>>,
       <<0, 119, 16366, 6912, 12656, 3831, 2477, 8498>>,
       <<0, 123, 16364, 9910, 3988, 5392, 11223, 13161>>,
       <<0, 127, 16362, 10923, 12014, 14875, 10356, 5016>>,
       <<0, 131, 16360, 9889, 3998, 16149, 7941, 12289>>,
       <<0, 135, 16358, 6742, 12741, 9467, 6580, 3407>>,
       <<0, 139, 16356, 1420, 5509, 12490, 2876, 12651>>,
       <<0, 143, 16353, 10241, 15108, 12158, 3264, 3678>>,
       <<0, 147, 16351, 375, 8809, 14867, 7023, 11568>>,
       <<0, 151, 16348, 4525, 3038, 14725, 5654, 6361>>,
       <<0, 155, 16345, 6242, 14223, 10958, 14975, 2350>>,
       <<0, 159, 16342, 5464, 9642, 8938, 8885, 3555>>,
       <<0, 163, 16339, 2126, 5728, 4818, 542, 14730>>,
       <<0, 167, 16335, 12548, 2532, 2942, 8817, 3235>>,
       <<0, 171, 16332, 3898, 108, 488, 8315, 8374>>,
       <<0, 175, 16328, 8879, 14896, 4871, 10442, 4976>>,
       <<0, 179, 16324, 11045, 14188, 2002, 13343, 12764>>,
       <<0, 183, 16320, 10331, 14429, 6464, 961, 9112>>,
       <<0, 187, 16316, 6673, 15684, 13380, 7578, 5667>>,
       <<0, 191, 16312, 8, 1637, 15828, 2094, 10293>>,
       <<0, 195, 16307, 6654, 5127, 5858, 1635, 5418>>,
       <<0, 199, 16302, 10164, 9842, 8288, 4885, 8313>>,
       <<0, 203, 16297, 10474, 15859, 16191, 7298, 321>>,
       <<0, 207, 16292, 7521, 6875, 8302, 16252, 3563>>,
       <<0, 211, 16287, 1239, 15739, 15581, 626, 10203>>,
       <<0, 215, 16281, 7950, 9771, 7542, 4160, 10039>>,
       <<0, 219, 16275, 11205, 5443, 7973, 13004, 1742>>,
       <<0, 223, 16269, 10940, 2848, 14037, 3438, 4104>>,
       <<0, 227, 16263, 7091, 2083, 13676, 5926, 1789>>,
       <<0, 231, 16256, 15978, 3248, 3025, 5268, 5795>>,
       <<0, 235, 16250, 4769, 6445, 3816, 4542, 15635>>,
       <<0, 239, 16243, 6168, 11781, 15251, 7067, 14325>>,
       <<0, 243, 16236, 3728, 2984, 15026, 14689, 12548>>,
       <<0, 247, 16228, 13767, 12936, 9508, 9629, 10940>>,
       <<0, 251, 16221, 3455, 8987, 1988, 1804, 11552>> >>,
    << <<0, 255, 16213, 5495, 7642, 10090, 10552, 12976>>,
       <<0, 511, 15018, 12014, 14875, 10442, 16272, 4982>>,
       <<0, 767, 11776, 8293, 15828, 5427, 2113, 7307>>,
       <<0, 1023, 5463, 7642, 10093, 5783, 4697, 11453>>,
       <<0, 1278, 11441, 2885, 13658, 9950, 7083, 5739>>,
       <<0, 1533, 12304, 3221, 4324, 1727, 721, 8193>>,
       <<0, 1788, 7032, 5536, 14621, 7825, 8455, 7844>>,
       <<0, 2042, 10990, 14875, 11829, 12929, 10664, 6600>>,
       <<0, 2296, 6778, 15742, 7517, 4640, 13691, 3346>>,
       <<0, 2549, 9765, 8939, 3478, 10490, 13109, 11481>>,
       <<0, 2802, 2553, 15625, 3557, 4631, 7804, 14350>>,
       <<0, 3054, 517, 15831, 9578, 2773, 10780, 4580>>,
       <<0, 3305, 2650, 1654, 1572, 6596, 3936, 2833>>,
       <<0, 3555, 7945, 14051, 818, 13187, 4789, 3937>>,
       <<0, 3804, 15403, 15789, 2975, 6563, 12180, 9842>>,
       <<0, 4053, 7642, 10136, 10989, 7492, 15319, 11833>>,
       <<0, 4301, 51, 12086, 4310, 6163, 13811, 6919>>,
       <<0, 4547, 8025, 3179, 8665, 4481, 14078, 883>>,
       <<0, 4792, 14193, 1003, 4732, 8874, 7244, 15963>>,
       <<0, 5037, 1189, 13981, 3936, 129, 15018, 579>>,
       <<0, 5280, 806, 12531, 13441, 8334, 14955, 11299>>,
       <<0, 5521, 12071, 14895, 5724, 12174, 9686, 2044>>,
       <<0, 5762, 1250, 9101, 8154, 2525, 11773, 12013>>,
       <<0, 6001, 149, 5988, 2127, 4650, 5223, 5769>>,
       <<0, 6238, 7812, 10278, 9509, 8848, 3739, 6123>>,
       <<0, 6474, 6906, 8020, 6930, 9612, 7873, 9712>>,
       <<0, 6708, 12871, 3152, 13095, 9678, 15473, 2803>>,
       <<0, 6941, 8385, 4897, 6234, 5238, 15668, 6530>>,
       <<0, 7172, 8901, 15124, 652, 9023, 13114, 12243>>,
       <<0, 7401, 13496, 15690, 5243, 6662, 15094, 9379>>,
       <<0, 7629, 4869, 4905, 12905, 851, 1761, 7295>>,
       <<0, 7854, 14877, 1200, 6079, 10358, 4848, 13903>>,
       <<0, 8078, 9849, 13995, 12892, 6617, 5163, 13008>>,
       <<0, 8300, 5276, 14547, 2725, 10553, 9487, 9026>>,
       <<0, 8520, 271, 5058, 5, 2125, 14525, 9077>>,
       <<0, 8737, 10338, 5843, 8667, 11404, 4913, 76>>,
       <<0, 8953, 1839, 9693, 11648, 9916, 11144, 1476>>,
       <<0, 9166, 6681, 1738, 14945, 2216, 16292, 15623>>,
       <<0, 9377, 7625, 12049, 7641, 14991, 4132, 5615>>,
       <<0, 9586, 3829, 4360, 4332, 740, 7241, 12106>>,
       <<0, 9792, 10840, 10519, 8827, 15194, 1042, 11529>>,
       <<0, 9996, 11450, 2757, 342, 15297, 4694, 12606>>,
       <<0, 10198, 4841, 11674, 10703, 9242, 9159, 10895>>,
       <<0, 10397, 6592, 14823, 853, 8340, 10179, 2773>>,
       <<0, 10593, 15907, 5462, 15112, 539, 4139, 10009>>,
       <<0, 10787, 15614, 12134, 10461, 4600, 12092, 7611>>,
       <<0, 10979, 4939, 3499, 3480, 7300, 3795, 4347>>,
       <<0, 11167, 15883, 6129, 14443, 2917, 9953, 13739>>,
       <<0, 11353, 14924, 9269, 9156, 2323, 3924, 9453>>,
       <<0, 11537, 1319, 617, 6517, 2625, 6419, 7573>>,
       <<0, 11717, 7102, 2071, 12038, 15459, 5754, 8212>>,
       <<0, 11894, 15168, 7124, 11198, 14189, 15609, 2299>>,
       <<0, 12069, 8424, 131, 10892, 10759, 13346, 9813>>,
       <<0, 12241, 2554, 8303, 2762, 1911, 14164, 12934>>,
       <<0, 12409, 13257, 6194, 878, 797, 9879, 13613>>,
       <<0, 12575, 7090, 369, 11533, 6963, 12413, 12418>>,
       <<0, 12737, 16157, 15720, 6082, 6438, 2747, 13558>>,
       <<0, 12897, 7042, 16191, 719, 15852, 10447, 8573>>,
       <<0, 13053, 11875, 5686, 3227, 2473, 1948, 5697>>,
       <<0, 13206, 13645, 14236, 12886, 11312, 6236, 13340>>,
       <<0, 13356, 11742, 2196, 14213, 11543, 7139, 7508>>,
       <<0, 13503, 5564, 10149, 3650, 14913, 5693, 1846>>,
       <<0, 13646, 10910, 13847, 6662, 2194, 10707, 6061>> >>,
    << <<0, 13786, 10823, 8481, 10096, 2097, 11934, 9255>>,
       <<0, 14897, 15221, 6710, 8750, 16215, 576, 12544>>,
       <<0, 2312, 1805, 11702, 10934, 10126, 4142, 8474>>,
       <<-1, 3984, 8977, 1148, 2700, 7778, 13309, 5310>>,
       <<-1, 672, 16133, 1004, 13926, 15146, 1888, 13651>>,
       <<-1, 11806, 925, 5365, 13567, 1437, 12026, 15280>>,
       <<0, 10764, 1121, 3489, 4162, 1909, 1090, 575>>,
       <<0, 16209, 10576, 1305, 15319, 5100, 5509, 3594>>,
       <<0, 6752, 2445, 8386, 15938, 4636, 10058, 8356>>,
       <<-1, 7470, 12421, 406, 1389, 3168, 1245, 4223>>,
       <<-1, 0, 2628, 14893, 8361, 5287, 1923, 13811>>,
       <<-1, 7592, 12932, 1299, 4821, 11388, 3450, 12311>>,
       <<0, 6884, 274, 2076, 5144, 6781, 2675, 15162>>,
       <<0, 16230, 1817, 3979, 12836, 14998, 15118, 14349>>,
       <<0, 10654, 5176, 14808, 5954, 14935, 2468, 14926>>,
       <<-1, 11666, 16253, 14861, 15392, 7147, 14157, 15679>>,
       <<-1, 632, 7593, 14254, 16036, 8797, 8158, 2687>>,
       <<-1, 4079, 13515, 15772, 3788, 6293, 751, 6950>>,
       <<0, 2455, 9637, 1964, 2461, 569, 2987, 13080>>,
       <<0, 14957, 11386, 11175, 9983, 2347, 15365, 1065>>,
       <<0, 13707, 12549, 13850, 16229, 6847, 3458, 15492>>,
       <<-1, 16238, 16058, 12360, 10433, 8528, 4834, 15424>>,
       <<-1, 2519, 8599, 15216, 6128, 2516, 11800, 14445>>,
       <<-1, 1547, 67, 7389, 8075, 8180, 12479, 2226>>,
       <<-1, 14215, 8993, 9995, 16070, 1180, 3016, 9349>>,
       <<0, 12493, 12413, 6244, 11291, 7327, 13076, 15972>>,
       <<0, 15669, 4312, 7351, 4478, 15042, 16077, 13292>>,
       <<0, 4438, 8526, 13393, 4950, 4068, 8908, 438>>,
       <<-1, 5511, 367, 11046, 12490, 11582, 7141, 4666>>,
       <<-1, 196, 1472, 7277, 15898, 10393, 11012, 10703>>,
       <<-1, 9764, 4050, 7152, 3581, 83, 16185, 7245>>,
       <<0, 9034, 9416, 10316, 11053, 7340, 9712, 11597>>,
       <<0, 16382, 9108, 2092, 4541, 7736, 9274, 12140>>,
       <<0, 8668, 8040, 1807, 11526, 159, 10700, 5538>>,
       <<-1, 9368, 10733, 14131, 4193, 7812, 48, 10062>>,
       <<-1, 134, 11391, 3683, 12771, 4269, 2401, 12534>>,
       <<-1, 5840, 4443, 11778, 14218, 10947, 4679, 5929>>,
       <<0, 4855, 11514, 9337, 10867, 11074, 3344, 8604>>,
       <<0, 15790, 13494, 128, 14157, 11680, 4484, 7159>>,
       <<0, 12207, 15303, 79, 14332, 8856, 11804, 716>>,
       <<-1, 13785, 2067, 9297, 7280, 1451, 5834, 11774>>,
       <<-1, 1367, 11648, 5758, 151, 12960, 7247, 1880>>,
       <<-1, 2756, 3319, 11029, 14184, 9081, 1347, 15743>>,
       <<0, 290, 464, 5533, 11280, 4493, 4543, 6778>>,
       <<0, 13941, 3331, 10163, 6167, 448, 3646, 7519>>,
       <<0, 14774, 14750, 5187, 1413, 9400, 10528, 12944>>,
       <<0, 2024, 10191, 9067, 14070, 3514, 11675, 5666>>,
       <<-1, 3796, 15001, 10870, 1017, 9449, 8422, 4125>>,
       <<-1, 757, 11739, 12211, 330, 7937, 4119, 14951>>,
       <<-1, 12085, 4102, 8242, 222, 11147, 4521, 5003>>,
       <<0, 10981, 570, 7242, 1041, 8106, 5529, 8655>>,
       <<0, 16164, 14851, 9364, 9781, 3788, 5661, 11959>>,
       <<0, 6486, 13724, 3783, 8897, 6274, 12276, 5588>>,
       <<-1, 7228, 13110, 14151, 435, 535, 14186, 2304>>,
       <<-1, 4, 184, 2475, 15521, 3001, 12969, 7944>>,
       <<-1, 7838, 14882, 15196, 14125, 16315, 571, 13939>>,
       <<0, 7146, 2020, 15828, 3713, 3391, 4494, 10181>>,
       <<0, 16267, 3694, 630, 12911, 9689, 312, 13796>>,
       <<0, 10432, 5169, 4897, 9817, 5016, 6005, 1722>>,
       <<-1, 11389, 16101, 15249, 15606, 6499, 15255, 1710>>,
       <<-1, 555, 2071, 14059, 175, 7896, 4845, 15569>>,
       <<-1, 4273, 4316, 10298, 7556, 972, 9549, 7997>>,
       <<0, 2741, 15659, 11878, 2074, 8227, 7153, 4634>> >>,
    << <<0, 15073, 11577, 1560, 3779, 14073, 11076, 4807>>,
       <<0, 11813, 7894, 10022, 9117, 6629, 8742, 12965>>,
       <<-1, 10568, 11304, 1832, 5138, 13247, 12903, 9626>>,
       <<-1, 12, 15983, 11888, 5673, 2125, 12128, 9443>>,
       <<-1, 9369, 1662, 6934, 15372, 1694, 4797, 8450>>,
       <<0, 10873, 5685, 6334, 12823, 7718, 3232, 3591>>,
       <<0, 15536, 8156, 5227, 161, 14479, 9618, 4077>>,
       <<0, 1302, 13615, 3289, 9423, 5880, 6638, 5876>>,
       <<-1, 1868, 9005, 14924, 567, 10512, 3630, 12312>>,
       <<-1, 3705, 3287, 12792, 14695, 13776, 6297, 11963>>,
       <<0, 4578, 14613, 9395, 7560, 2054, 3607, 5854>>,
       <<0, 16267, 5622, 5258, 1212, 13718, 9899, 1117>>,
       <<0, 8170, 985, 3297, 2403, 8368, 10740, 7322>>,
       <<-1, 6519, 10667, 13480, 11923, 13708, 13673, 663>>,
       <<-1, 483, 1753, 847, 1593, 3922, 4532, 14252>>,
       <<-1, 13786, 9651, 13707, 16041, 1332, 14105, 14123>>,
       <<0, 13865, 4333, 14717, 1907, 2494, 2242, 15593>>,
       <<0, 13463, 13421, 14466, 12494, 12163, 5171, 8550>>,
       <<-1, 13070, 8606, 5903, 788, 5325, 14513, 4282>>,
       <<-1, 323, 5943, 4254, 15443, 5133, 203, 13643>>,
       <<-1, 7110, 8536, 12935, 3117, 7329, 1415, 5675>>,
       <<0, 8792, 14380, 1771, 7430, 12338, 5127, 1952>>,
       <<0, 16164, 9574, 1351, 1576, 10367, 13341, 7309>>,
       <<0, 3875, 8860, 13326, 8214, 13086, 7340, 5345>>,
       <<-1, 3256, 12009, 15665, 7334, 2635, 10581, 10332>>,
       <<-1, 2220, 7048, 12559, 15288, 2641, 7888, 16258>>,
       <<0, 2027, 1188, 2342, 7521, 10363, 2042, 11904>>,
       <<0, 15752, 3536, 823, 13931, 1608, 15740, 3079>>,
       <<0, 10318, 2733, 1015, 11057, 14889, 4132, 12088>>,
       <<-1, 8718, 4599, 4492, 584, 14623, 5895, 14725>>,
       <<-1, 58, 1607, 13151, 3203, 1356, 14875, 8098>>,
       <<-1, 11254, 14318, 289, 12409, 15707, 3268, 10616>>,
       <<0, 12306, 2155, 11415, 15786, 7607, 8227, 4134>>,
       <<0, 14773, 10147, 12091, 9475, 4755, 13220, 4647>>,
       <<-1, 15656, 2745, 6373, 10832, 11101, 12930, 12483>>,
       <<-1, 1039, 15856, 14385, 6079, 14932, 15365, 6713>>,
       <<-1, 5086, 8069, 10799, 4787, 14529, 1930, 8573>>,
       <<0, 6490, 199, 14321, 8044, 5533, 8942, 5367>>,
       <<0, 16383, 13498, 7069, 6278, 10510, 15674, 14222>>,
       <<0, 6350, 3727, 5547, 14495, 8378, 4297, 11785>>,
       <<-1, 4976, 15421, 4953, 7848, 13873, 11454, 7472>>,
       <<-1, 1093, 14673, 7416, 6227, 9022, 1554, 11602>>,
       <<-1, 15807, 16102, 11067, 5701, 7090, 4194, 12191>>,
       <<0, 14838, 11000, 8170, 3699, 5687, 14522, 6545>>,
       <<0, 12205, 4891, 4643, 1635, 15116, 1130, 15702>>,
       <<-1, 11110, 13067, 416, 7436, 9317, 5347, 6739>>,
       <<-1, 46, 269, 6597, 11271, 3248, 11171, 12443>>,
       <<-1, 8852, 14556, 13275, 12585, 14163, 14753, 2058>>,
       <<0, 10435, 12165, 15440, 8674, 7627, 2611, 5423>>,
       <<0, 15709, 12351, 6438, 11805, 9020, 5579, 1341>>,
       <<0, 1876, 3583, 11990, 11743, 15186, 4057, 13684>>,
       <<-1, 2144, 10909, 13841, 5683, 13772, 15635, 4672>>,
       <<-1, 3348, 3427, 10532, 9712, 7090, 1041, 6932>>,
       <<0, 4022, 16324, 6602, 13090, 4871, 7034, 16310>>,
       <<0, 16188, 10997, 4008, 16268, 4366, 9472, 8702>>,
       <<0, 8664, 4904, 15347, 14439, 9095, 7244, 5>>,
       <<-1, 6985, 10903, 7363, 10832, 1778, 4693, 11641>>,
       <<-1, 354, 1474, 13, 12986, 13449, 14881, 6981>>,
       <<-1, 13219, 7572, 12895, 9432, 13077, 566, 598>>,
       <<0, 13549, 13369, 6501, 16214, 1908, 15838, 11442>>,
       <<0, 13783, 11870, 13464, 13874, 248, 2153, 1311>>,
       <<-1, 13636, 11276, 2378, 15515, 2755, 13127, 11077>>,
       <<-1, 447, 2744, 7589, 4431, 7259, 3836, 12834>> >>,
    << <<-1, 6641, 6318, 14739, 12180, 15445, 14289, 12294>>,
       <<-1, 718, 967, 11494, 14561, 1283, 16091, 710>>,
       <<-1, 936, 1235, 4919, 9052, 14124, 651, 13913>>,
       <<-1, 7209, 15862, 10422, 23, 3375, 7230, 4635>>,
       <<0, 696, 4155, 15441, 13760, 12708, 7370, 8329>>,
       <<0, 10293, 9742, 7857, 14226, 6125, 16361, 6017>>,
       <<0, 15855, 10703, 3026, 5054, 8772, 13034, 13382>>,
       <<0, 15201, 16353, 15768, 14109, 12742, 14763, 14656>>,
       <<0, 8588, 14326, 1137, 9121, 3150, 15671, 11797>>,
       <<-1, 14992, 12298, 2464, 10808, 12118, 14049, 3442>>,
       <<-1, 5558, 372, 4082, 10334, 12877, 7822, 12542>>,
       <<-1, 367, 4606, 6210, 11722, 11355, 5908, 6369>>,
       <<-1, 1455, 6456, 2677, 11320, 6807, 3027, 6869>>,
       <<-1, 8395, 13119, 5635, 11108, 11184, 5771, 2708>>,
       <<0, 2083, 11984, 15112, 10720, 11002, 9384, 8539>>,
       <<0, 11338, 13113, 11120, 10393, 16382, 13693, 433>>,
       <<0, 16148, 13871, 13950, 6361, 15879, 9736, 2659>>,
       <<0, 14628, 3963, 1569, 14197, 5437, 14278, 2788>>,
       <<0, 7373, 1501, 14868, 15618, 2876, 9427, 4772>>,
       <<-1, 13611, 9029, 3799, 5448, 2008, 14084, 11217>>,
       <<-1, 4552, 14131, 16116, 12668, 12770, 10520, 14839>>,
       <<-1, 132, 3309, 4639, 213, 9811, 13639, 4106>>,
       <<-1, 2082, 9033, 1371, 2477, 148, 14319, 9685>>,
       <<-1, 9639, 5522, 2823, 8218, 2811, 996, 3006>>,
       <<0, 3456, 2576, 7120, 11836, 15762, 14947, 13678>>,
       <<0, 12302, 1620, 15253, 15153, 14871, 3521, 10815>>,
       <<0, 16325, 6338, 11798, 16281, 479, 5316, 3655>>,
       <<0, 13948, 13380, 13314, 2598, 13112, 7980, 2056>>,
       <<0, 6104, 794, 12177, 3904, 6760, 2392, 5989>>,
       <<-1, 12250, 6204, 12382, 7409, 10328, 1140, 293>>,
       <<-1, 3633, 2720, 10880, 7031, 8402, 12435, 6181>>,
       <<-1, 14, 8514, 7653, 2689, 14866, 16277, 13191>>,
       <<-1, 2813, 276, 13754, 10265, 16266, 11637, 13169>>,
       <<-1, 10931, 9736, 4998, 15681, 224, 9360, 6526>>,
       <<0, 4803, 10109, 5887, 1092, 9120, 13914, 5419>>,
       <<0, 13176, 8712, 1263, 13244, 991, 11496, 10659>>,
       <<0, 16383, 16361, 15248, 14381, 9805, 12951, 383>>,
       <<0, 13168, 10330, 5528, 15152, 6493, 6831, 11783>>,
       <<0, 4790, 14942, 2886, 1919, 5083, 10242, 1307>>,
       <<-1, 10919, 1081, 16155, 4987, 2405, 2615, 5255>>,
       <<-1, 2805, 9450, 1097, 14345, 10813, 13434, 13979>>,
       <<-1, 15, 1381, 13900, 3278, 333, 8061, 11943>>,
       <<-1, 3641, 8423, 7930, 6079, 4139, 6767, 733>>,
       <<-1, 12263, 3892, 11751, 11364, 13953, 2474, 14374>>,
       <<0, 6116, 6181, 5673, 10220, 4062, 2239, 5760>>,
       <<0, 13955, 12816, 6238, 12965, 612, 5614, 12758>>,
       <<0, 16324, 4236, 11014, 2083, 3245, 13288, 6634>>,
       <<0, 12293, 5228, 2373, 11852, 2869, 9661, 9731>>,
       <<0, 3443, 2748, 5486, 9660, 6233, 9308, 9062>>,
       <<-1, 9627, 3768, 3823, 9965, 8748, 5235, 5208>>,
       <<-1, 2076, 1194, 14900, 3609, 1423, 13657, 6463>>,
       <<-1, 133, 14612, 9806, 1251, 14653, 14993, 9128>>,
       <<-1, 4562, 954, 13783, 10100, 1310, 12430, 1790>>,
       <<-1, 13624, 10612, 15780, 241, 10649, 15540, 11055>>,
       <<0, 7384, 15648, 13066, 13498, 16383, 5175, 100>>,
       <<0, 14634, 3628, 1749, 6547, 5535, 237, 13633>>,
       <<0, 16146, 9801, 4782, 8706, 4858, 245, 12640>>,
       <<0, 11329, 3364, 15656, 5831, 8673, 5939, 3392>>,
       <<0, 2070, 9033, 3904, 13026, 12667, 6708, 11575>>,
       <<-1, 8384, 3314, 11092, 16338, 222, 767, 9708>>,
       <<-1, 1449, 15141, 5218, 12040, 8335, 1824, 6378>>,
       <<-1, 370, 1377, 10252, 15547, 11597, 15134, 633>>,
       <<-1, 5567, 16378, 13315, 3378, 7096, 2166, 9430>> >>,
    << <<-1, 15005, 16227, 10439, 1610, 6748, 540, 7698>>,
       <<0, 2746, 4157, 9351, 15302, 3733, 15441, 6562>>,
       <<-1, 12288, 15785, 11761, 12718, 11524, 3894, 12315>>,
       <<0, 5414, 13100, 12232, 6486, 13237, 20, 5127>>,
       <<-1, 9687, 13263, 7025, 378, 13906, 9645, 11790>>,
       <<0, 7930, 2104, 9972, 4346, 6981, 10608, 2875>>,
       <<-1, 7276, 2142, 11902, 7977, 4770, 3787, 7732>>,
       <<0, 10221, 1091, 13350, 16244, 7782, 701, 15491>>,
       <<-1, 5122, 2752, 10648, 4380, 10343, 15671, 14063>>,
       <<0, 12222, 12940, 12994, 5082, 2068, 2162, 2682>>,
       <<-1, 3286, 14248, 13330, 1564, 9518, 4287, 15042>>,
       <<0, 13878, 10770, 6026, 6550, 11017, 13116, 7550>>,
       <<-1, 1822, 2741, 10325, 10761, 14874, 7326, 6570>>,
       <<0, 15141, 13350, 7408, 3772, 9421, 1496, 12694>>,
       <<-1, 769, 8292, 12900, 14173, 13749, 392, 6204>>,
       <<0, 15976, 8519, 12946, 5392, 9977, 6564, 4916>>,
       <<-1, 158, 11013, 3582, 5341, 8828, 669, 11827>>,
       <<0, 16359, 2524, 1827, 5385, 9407, 3727, 9409>>,
       <<-1, 6, 15558, 4065, 14849, 2087, 4974, 296>>,
       <<0, 16278, 14581, 13599, 9058, 13014, 14720, 9988>>,
       <<-1, 318, 10346, 10558, 8620, 9127, 5127, 7937>>,
       <<0, 15737, 16367, 7436, 13284, 15031, 15953, 3686>>,
       <<-1, 1084, 14722, 5188, 5515, 4001, 5086, 11278>>,
       <<0, 14751, 12878, 11112, 1503, 4928, 4500, 2783>>,
       <<-1, 2284, 1122, 15918, 5010, 14808, 13931, 1432>>,
       <<0, 13348, 2572, 15618, 3694, 5334, 1178, 6916>>,
       <<-1, 3882, 3436, 625, 3458, 1381, 8814, 8915>>,
       <<0, 11566, 13582, 4917, 14050, 7886, 3568, 6400>>,
       <<-1, 5834, 1657, 7068, 3045, 14501, 5178, 13020>>,
       <<0, 9458, 3380, 7284, 3093, 7018, 11585, 6652>>,
       <<-1, 8084, 8392, 618, 11624, 8360, 9364, 10074>>,
       <<0, 7081, 15639, 4554, 7954, 10498, 7766, 5715>>,
       <<-1, 10569, 12538, 11664, 8265, 5154, 6690, 15162>>,
       <<0, 4505, 5111, 13986, 2305, 4819, 11640, 9275>>,
       <<-1, 13219, 8811, 4373, 6923, 7873, 7789, 1231>>,
       <<0, 1801, 3068, 10036, 7389, 6199, 5739, 10272>>,
       <<-1, 15958, 13956, 2164, 7713, 11050, 7359, 15831>>,
       <<-1, 15430, 1576, 14328, 6669, 1511, 16249, 12907>>,
       <<0, 2326, 3208, 3015, 13677, 5757, 4879, 10120>>,
       <<-1, 12701, 16332, 205, 3906, 2295, 14924, 9405>>,
       <<0, 5011, 11761, 3064, 7040, 3402, 8214, 1844>>,
       <<-1, 10078, 1364, 796, 5769, 8030, 4109, 8760>>,
       <<0, 7555, 7020, 705, 2525, 4879, 11475, 13114>>,
       <<-1, 7632, 9858, 5359, 2184, 1285, 10538, 14419>>,
       <<0, 9885, 5749, 9613, 3607, 1214, 3765, 14756>>,
       <<-1, 5434, 12278, 14782, 6464, 8159, 6984, 13902>>,
       <<0, 11935, 9139, 1507, 13712, 3528, 3299, 12932>>,
       <<-1, 3546, 11744, 9910, 14265, 7031, 12965, 7459>>,
       <<0, 13648, 598, 4851, 4798, 12419, 11646, 14696>>,
       <<-1, 2021, 15197, 8536, 11039, 1161, 12895, 8035>>,
       <<0, 14974, 5420, 1678, 12598, 5835, 7625, 2829>>,
       <<-1, 903, 8635, 11432, 3015, 2663, 9233, 10899>>,
       <<0, 15876, 14940, 15583, 11461, 16350, 6621, 715>>,
       <<-1, 223, 2646, 14610, 4225, 11660, 4513, 8462>>,
       <<0, 16330, 3939, 3358, 14213, 14912, 3182, 6133>>,
       <<-1, 0, 1353, 5614, 9878, 8938, 9418, 13450>>,
       <<0, 16321, 8011, 4061, 6069, 13775, 13850, 10378>>,
       <<-1, 240, 9870, 11613, 11952, 9050, 6347, 12580>>,
       <<0, 15850, 14830, 4386, 5566, 3268, 14844, 14346>>,
       <<-1, 937, 14997, 11592, 10888, 6585, 15101, 14532>>,
       <<0, 14931, 13183, 7445, 15660, 14444, 941, 5553>>,
       <<-1, 2072, 4755, 4346, 9, 10936, 4056, 2499>>,
       <<0, 13590, 3182, 14112, 2103, 2850, 5043, 9007>> >>,
    << <<-1, 3611, 10301, 14725, 2192, 715, 6784, 3387>>,
       <<-1, 384, 12135, 11660, 8836, 44, 6, 1177>>,
       <<-1, 9114, 15787, 9627, 7697, 3580, 2381, 3634>>,
       <<0, 6893, 11963, 349, 2676, 2512, 5667, 446>>,
       <<0, 15904, 7203, 13860, 12284, 3730, 6908, 181>>,
       <<0, 13028, 14779, 5991, 5823, 11327, 12420, 5410>>,
       <<0, 416, 2653, 388, 15962, 14527, 15236, 7072>>,
       <<-1, 3876, 6578, 2697, 15071, 8751, 1306, 10632>>,
       <<-1, 300, 4018, 5232, 4815, 7673, 8823, 5728>>,
       <<-1, 8744, 5701, 9429, 6891, 2143, 8052, 15606>>,
       <<0, 6513, 15982, 2460, 13139, 10335, 13108, 4494>>,
       <<0, 15799, 5850, 13556, 1486, 744, 5348, 8824>>,
       <<0, 13277, 417, 7770, 10240, 479, 15296, 15187>>,
       <<0, 832, 906, 3352, 4480, 13616, 876, 787>>,
       <<-1, 4149, 4018, 2309, 15905, 7754, 7972, 14258>>,
       <<-1, 226, 2105, 4901, 6319, 5760, 8519, 8161>>,
       <<-1, 8378, 10849, 4095, 2992, 6441, 8652, 13724>>,
       <<0, 6130, 284, 11943, 4337, 13597, 7606, 16197>>,
       <<0, 15684, 1300, 3453, 1046, 13864, 5296, 9756>>,
       <<0, 13516, 9525, 2613, 15130, 6433, 1568, 15451>>,
       <<0, 1247, 6746, 8829, 4154, 4729, 10467, 4157>>,
       <<-1, 4429, 16121, 3379, 7444, 1284, 6616, 401>>,
       <<-1, 162, 7180, 4020, 7440, 13358, 9683, 6692>>,
       <<-1, 8018, 2328, 13083, 6351, 2798, 1691, 1088>>,
       <<0, 5742, 1698, 2092, 4915, 6290, 10725, 9832>>,
       <<0, 15558, 11154, 12484, 9387, 10113, 3938, 12988>>,
       <<0, 13747, 6801, 12018, 16108, 5914, 12762, 3301>>,
       <<0, 1661, 15782, 11459, 5172, 7426, 10976, 13652>>,
       <<-1, 4718, 7151, 4425, 3225, 12001, 10637, 11278>>,
       <<-1, 109, 3532, 8499, 6731, 8887, 10561, 7974>>,
       <<-1, 7663, 335, 13013, 13219, 1064, 5500, 4455>>,
       <<0, 5350, 7939, 8802, 2936, 13541, 2837, 13939>>,
       <<0, 15423, 3972, 4067, 8639, 893, 13859, 9921>>,
       <<0, 13969, 6190, 11836, 11231, 6235, 6521, 14853>>,
       <<0, 2075, 7247, 14240, 14841, 13651, 3135, 4659>>,
       <<-1, 5014, 6826, 11278, 10016, 13637, 15473, 7360>>,
       <<-1, 66, 8108, 13302, 6234, 7282, 226, 228>>,
       <<-1, 7313, 8624, 12057, 12486, 2389, 2454, 21>>,
       <<0, 4955, 6765, 5286, 2361, 9630, 646, 7885>>,
       <<0, 15277, 13952, 9542, 4283, 14690, 12593, 9768>>,
       <<0, 14182, 5345, 7224, 13126, 10936, 8591, 7642>>,
       <<0, 2487, 9538, 9332, 8861, 14065, 7490, 15918>>,
       <<-1, 5317, 12018, 3789, 13864, 12211, 6558, 8210>>,
       <<-1, 34, 4976, 12882, 11016, 4810, 3548, 13549>>,
       <<-1, 6969, 14506, 10243, 15576, 6179, 3366, 1232>>,
       <<0, 4557, 2352, 5758, 11245, 15517, 1463, 799>>,
       <<0, 15122, 9864, 14729, 12072, 12968, 2147, 2564>>,
       <<0, 14386, 2014, 8306, 2544, 3476, 543, 12172>>,
       <<0, 2898, 1913, 7885, 15732, 9029, 2042, 6730>>,
       <<-1, 5628, 3135, 1679, 5718, 211, 3860, 1912>>,
       <<-1, 12, 10860, 12791, 10175, 15830, 16000, 548>>,
       <<-1, 6632, 5230, 9545, 4877, 5335, 16177, 7298>>,
       <<0, 4155, 15295, 4891, 14866, 8770, 9537, 13397>>,
       <<0, 14957, 9734, 9216, 4811, 9594, 774, 9490>>,
       <<0, 14580, 10427, 4819, 3401, 2437, 12272, 3346>>,
       <<0, 3306, 12800, 4193, 9506, 10689, 2617, 6018>>,
       <<-1, 5945, 9663, 137, 8136, 2251, 16145, 15163>>,
       <<-1, 1, 9605, 9696, 6197, 5472, 6841, 2725>>,
       <<-1, 6301, 749, 8236, 725, 11400, 4935, 14779>>,
       <<0, 3752, 683, 15218, 7424, 1597, 995, 4752>>,
       <<0, 14782, 15306, 1768, 7219, 3546, 3756, 14199>>,
       <<0, 14765, 12143, 5281, 11282, 6140, 13327, 1557>>,
       <<0, 3713, 5110, 5192, 8577, 4448, 12072, 2296>> >>,
    << <<-1, 6269, 11862, 4526, 6789, 3144, 11743, 9267>>,
       <<-1, 470, 886, 714, 829, 12946, 14440, 8107>>,
       <<-1, 1459, 766, 3262, 7553, 6578, 2223, 4887>>,
       <<-1, 8814, 13301, 14128, 5038, 12345, 3315, 7716>>,
       <<0, 3015, 7943, 4525, 6341, 4522, 9277, 7569>>,
       <<0, 12313, 13023, 8196, 14815, 10363, 9664, 5120>>,
       <<0, 16359, 3530, 7988, 2134, 15726, 5375, 8846>>,
       <<0, 13426, 455, 8426, 14376, 12193, 3567, 14722>>,
       <<0, 4765, 7994, 2950, 12458, 14595, 15737, 6921>>,
       <<-1, 10456, 963, 3262, 10555, 6038, 7683, 1582>>,
       <<-1, 2291, 6634, 4460, 8274, 9016, 4937, 11917>>,
       <<-1, 138, 7395, 465, 2754, 10509, 1177, 13797>>,
       <<-1, 4915, 10115, 10208, 5332, 1168, 1037, 3655>>,
       <<-1, 14585, 525, 14319, 13961, 13461, 8104, 6092>>,
       <<0, 8637, 14104, 6642, 11213, 14638, 437, 14183>>,
       <<0, 15389, 14765, 15411, 619, 8257, 9666, 4653>>,
       <<0, 15576, 13582, 3222, 11466, 10737, 12527, 9956>>,
       <<0, 9118, 14801, 4846, 13297, 10709, 14399, 14643>>,
       <<-1, 15154, 16114, 923, 11697, 14443, 6521, 6784>>,
       <<-1, 5331, 5645, 6790, 8259, 8627, 12566, 13819>>,
       <<-1, 222, 10010, 1015, 15815, 6616, 2323, 3520>>,
       <<-1, 2008, 1567, 13244, 9227, 8194, 11382, 9374>>,
       <<-1, 9926, 2234, 12137, 8346, 13482, 13804, 14738>>,
       <<0, 4215, 159, 3823, 3613, 849, 7229, 12444>>,
       <<0, 13089, 13433, 14800, 2791, 12333, 14363, 8864>>,
       <<0, 16380, 11459, 13302, 5556, 6742, 1979, 9560>>,
       <<0, 12683, 13204, 6918, 15190, 15924, 2901, 8914>>,
       <<0, 3576, 2973, 10629, 10705, 14045, 4380, 7492>>,
       <<-1, 9327, 147, 1954, 5372, 10626, 4125, 9622>>,
       <<-1, 1704, 4068, 1896, 14355, 9612, 1153, 4255>>,
       <<-1, 343, 10822, 11885, 7928, 7368, 202, 14660>>,
       <<-1, 5825, 10700, 14136, 8001, 15088, 3554, 13900>>,
       <<-1, 15811, 11240, 4844, 4645, 1017, 5222, 5244>>,
       <<0, 9657, 14089, 8010, 6343, 6480, 5513, 15632>>,
       <<0, 15768, 2103, 7106, 373, 2183, 2682, 5871>>,
       <<0, 15151, 15366, 2411, 11279, 14854, 15025, 15667>>,
       <<0, 8072, 2400, 10140, 7911, 2349, 4045, 1880>>,
       <<-1, 13932, 14622, 416, 13447, 16220, 11461, 7785>>,
       <<-1, 4455, 4029, 11224, 6221, 5561, 16273, 12459>>,
       <<-1, 66, 3866, 7100, 975, 5927, 12035, 3707>>,
       <<-1, 2638, 2485, 4918, 9052, 6213, 3318, 8665>>,
       <<-1, 11073, 13933, 15352, 5022, 15575, 4340, 3367>>,
       <<0, 5390, 12834, 13463, 2350, 3725, 5530, 12857>>,
       <<0, 13792, 1390, 16199, 16182, 2590, 12639, 8041>>,
       <<0, 16309, 14409, 8034, 9507, 5439, 9360, 78>>,
       <<0, 11870, 1832, 4156, 5126, 8632, 5517, 15235>>,
       <<0, 2366, 11854, 16179, 4526, 9341, 187, 12099>>,
       <<-1, 8237, 11874, 5198, 4516, 11903, 10249, 12062>>,
       <<-1, 1199, 13285, 13148, 2154, 13549, 12748, 12098>>,
       <<-1, 639, 4191, 2781, 2766, 1986, 14209, 15201>>,
       <<-1, 6795, 3019, 6836, 6113, 10700, 3023, 7460>>,
       <<0, 657, 9256, 3110, 15421, 7338, 1162, 13921>>,
       <<0, 10623, 7172, 8023, 13764, 6405, 9864, 4332>>,
       <<0, 16057, 8247, 6436, 6851, 16086, 8580, 14996>>,
       <<0, 14641, 10924, 13623, 7535, 8818, 16369, 587>>,
       <<0, 6979, 14806, 15369, 15744, 15542, 6490, 7297>>,
       <<-1, 12724, 10046, 7348, 6264, 14476, 10983, 5978>>,
       <<-1, 3646, 5978, 11968, 6451, 4668, 9198, 3589>>,
       <<-1, 1, 13276, 1497, 16083, 8618, 14233, 14130>>,
       <<-1, 3345, 10886, 5071, 14917, 3821, 2923, 11726>>,
       <<-1, 12251, 7975, 9551, 5926, 11800, 7337, 1869>>,
       <<0, 6536, 2955, 10494, 11764, 9227, 2656, 3988>>,
       <<0, 14416, 10363, 14379, 395, 4289, 5042, 14397>> >>,
    << <<0, 16147, 2533, 13132, 11311, 14124, 630, 15609>>,
       <<0, 5471, 4440, 15140, 7756, 9845, 1089, 8591>>,
       <<-1, 2090, 11802, 13247, 11394, 4532, 13461, 12300>>,
       <<-1, 6069, 10180, 9440, 6513, 12442, 13808, 1323>>,
       <<0, 10798, 6148, 2329, 7812, 3600, 7870, 6654>>,
       <<0, 13973, 4579, 135, 3636, 16157, 15179, 5649>>,
       <<-1, 10320, 4982, 2764, 1567, 11899, 9779, 10684>>,
       <<-1, 356, 1791, 16061, 10892, 15916, 15, 106>>,
       <<0, 632, 13697, 15023, 15799, 10492, 8900, 6524>>,
       <<0, 16242, 5236, 1763, 7981, 14247, 9698, 9814>>,
       <<0, 4870, 11149, 5943, 14867, 6745, 5187, 10812>>,
       <<-1, 1792, 860, 1421, 7858, 4884, 14456, 2568>>,
       <<-1, 6569, 194, 6383, 1433, 15827, 14461, 3377>>,
       <<0, 11266, 4188, 13152, 9780, 10478, 15716, 6932>>,
       <<0, 13632, 6958, 3117, 15139, 2248, 12998, 15466>>,
       <<-1, 9736, 15222, 3730, 10396, 11850, 16369, 6036>>,
       <<-1, 499, 4824, 15167, 9186, 11587, 6286, 9978>>,
       <<0, 1264, 11921, 5967, 11674, 10646, 7110, 11309>>,
       <<0, 16313, 3987, 14915, 12499, 3007, 3334, 12643>>,
       <<0, 4262, 13445, 2154, 15571, 14298, 5037, 13741>>,
       <<-1, 1515, 2664, 404, 1855, 4988, 12243, 15567>>,
       <<-1, 7083, 833, 15001, 9317, 13448, 13675, 2976>>,
       <<0, 11717, 5268, 8613, 6541, 15768, 6810, 3473>>,
       <<0, 13271, 3669, 8422, 9642, 12981, 5492, 5033>>,
       <<-1, 9163, 7776, 4464, 7652, 8265, 2386, 3163>>,
       <<-1, 666, 3063, 12947, 4288, 14981, 5611, 7471>>,
       <<0, 1894, 11986, 15845, 10282, 4236, 1265, 5028>>,
       <<0, 16359, 13438, 15401, 6891, 833, 3463, 14298>>,
       <<0, 3648, 9807, 15864, 2582, 12808, 8722, 7690>>,
       <<-1, 1260, 7601, 4794, 15074, 14638, 11901, 5663>>,
       <<-1, 7610, 15913, 9459, 7354, 4362, 9656, 6178>>,
       <<0, 12150, 14741, 9653, 10547, 5990, 1209, 11794>>,
       <<0, 12890, 3545, 4368, 3117, 4127, 5118, 1723>>,
       <<-1, 8600, 13050, 12126, 15968, 11648, 7180, 10499>>,
       <<-1, 856, 8811, 10199, 12309, 76, 5741, 10402>>,
       <<0, 2521, 14873, 8304, 9091, 11850, 15169, 5518>>,
       <<0, 16381, 16066, 4470, 9618, 12172, 3154, 10098>>,
       <<0, 3028, 15257, 2967, 4260, 11118, 14314, 1915>>,
       <<-1, 1028, 5515, 15206, 4171, 3265, 9373, 4283>>,
       <<-1, 8151, 16140, 5947, 7595, 6553, 9236, 1320>>,
       <<0, 12566, 5621, 14597, 8033, 15762, 11123, 10910>>,
       <<0, 12489, 15902, 1042, 5865, 4844, 5547, 12828>>,
       <<-1, 8049, 12036, 9130, 15259, 14465, 13820, 2468>>,
       <<-1, 1070, 1029, 14014, 8004, 2411, 11841, 4134>>,
       <<0, 3145, 5244, 14945, 632, 5422, 8967, 8872>>,
       <<0, 16379, 11328, 509, 3729, 4909, 3607, 12109>>,
       <<0, 2404, 12177, 3808, 7190, 5087, 3933, 3874>>,
       <<-1, 819, 2084, 659, 15791, 16219, 11356, 5940>>,
       <<-1, 8705, 4669, 1510, 458, 15659, 434, 9866>>,
       <<0, 12963, 518, 12640, 2913, 4654, 680, 1528>>,
       <<0, 12071, 1374, 15478, 2463, 10032, 7010, 15947>>,
       <<-1, 7511, 1824, 9915, 5727, 14643, 13212, 9991>>,
       <<-1, 1306, 7265, 4131, 9090, 7076, 14787, 8718>>,
       <<0, 3764, 625, 2423, 11814, 10332, 1285, 5785>>,
       <<0, 16352, 15664, 3137, 7415, 6125, 798, 5137>>,
       <<0, 1776, 15831, 2039, 10389, 1768, 15139, 11477>>,
       <<-1, 633, 2421, 5551, 14957, 10199, 11645, 5826>>,
       <<-1, 9270, 738, 2620, 12033, 14639, 11755, 560>>,
       <<0, 13340, 6116, 2877, 6301, 13439, 5940, 2839>>,
       <<0, 11634, 2974, 12559, 12393, 3932, 15891, 2605>>,
       <<-1, 6985, 11969, 9977, 15781, 4799, 8753, 3624>>,
       <<-1, 1565, 5353, 11462, 5261, 11122, 7015, 5973>>,
       <<0, 4377, 2268, 15833, 3653, 9349, 16002, 3800>> >>,
    << <<0, 16301, 13344, 8224, 12131, 1442, 5422, 4583>>,
       <<-1, 13122, 7463, 10688, 3779, 4185, 8949, 3251>>,
       <<-1, 734, 11973, 8193, 9491, 8731, 14293, 5481>>,
       <<0, 6392, 8725, 6350, 14401, 7268, 14600, 13980>>,
       <<0, 14370, 4904, 9746, 2722, 5025, 5593, 15340>>,
       <<-1, 7116, 5996, 12273, 8087, 7272, 5885, 10236>>,
       <<-1, 3867, 14731, 14885, 15202, 16047, 10140, 5935>>,
       <<0, 11771, 12473, 8603, 12729, 1583, 1611, 3726>>,
       <<0, 10160, 14669, 7285, 13968, 13227, 6894, 14941>>,
       <<-1, 2579, 5294, 6087, 131, 9417, 15381, 11590>>,
       <<-1, 8985, 664, 15403, 9633, 958, 285, 376>>,
       <<0, 15285, 82, 3519, 14275, 12667, 3129, 11728>>,
       <<0, 4340, 13935, 7307, 4029, 4507, 203, 8139>>,
       <<-1, 230, 8359, 14276, 3053, 12203, 12430, 2278>>,
       <<-1, 15275, 298, 4737, 7179, 6123, 7356, 3757>>,
       <<0, 16375, 6004, 9882, 13753, 12305, 9248, 3135>>,
       <<-1, 14216, 11822, 13088, 9388, 6491, 15585, 12465>>,
       <<-1, 442, 4034, 14948, 2960, 1969, 15560, 4437>>,
       <<0, 5356, 12854, 14555, 9617, 15119, 11724, 950>>,
       <<0, 14870, 140, 795, 5258, 12703, 9318, 11767>>,
       <<-1, 8052, 2226, 12214, 3954, 4274, 11284, 10506>>,
       <<-1, 3180, 15862, 6798, 3180, 12259, 8995, 285>>,
       <<0, 10973, 7002, 12587, 2456, 9226, 9286, 145>>,
       <<0, 11007, 9027, 8570, 7242, 14263, 15449, 9257>>,
       <<-1, 3208, 4334, 8135, 5133, 4225, 4723, 7705>>,
       <<-1, 8012, 9028, 12443, 1221, 4569, 9544, 11689>>,
       <<0, 14850, 10354, 9367, 1523, 12943, 8418, 10751>>,
       <<0, 5400, 4032, 16052, 2891, 12352, 3044, 11293>>,
       <<-1, 452, 15193, 15723, 5125, 6828, 12600, 4437>>,
       <<-1, 14171, 2016, 3507, 12857, 7383, 13944, 6084>>,
       <<0, 16373, 13245, 357, 1634, 21, 15534, 16151>>,
       <<-1, 15320, 15212, 3939, 5851, 3881, 11570, 12393>>,
       <<-1, 222, 14466, 2348, 13661, 4426, 14817, 2370>>,
       <<0, 4296, 7639, 11433, 7516, 6730, 5915, 14997>>,
       <<0, 15301, 8394, 16374, 9857, 548, 6036, 1147>>,
       <<-1, 9026, 2001, 11938, 2841, 5888, 15762, 1483>>,
       <<-1, 2554, 9772, 10555, 1802, 8942, 7140, 9732>>,
       <<0, 10124, 12466, 5979, 5331, 4421, 10815, 12366>>,
       <<0, 11803, 11755, 9479, 8944, 4897, 7335, 5091>>,
       <<-1, 3897, 10487, 478, 1196, 3587, 16328, 11827>>,
       <<-1, 7078, 7528, 5796, 656, 4973, 278, 5132>>,
       <<0, 14348, 2334, 9303, 15918, 2719, 12562, 3318>>,
       <<0, 6434, 14287, 11468, 7857, 14813, 2783, 15148>>,
       <<-1, 748, 6827, 3044, 11254, 13847, 3454, 12343>>,
       <<-1, 13077, 6191, 2468, 5252, 1797, 13478, 10667>>,
       <<0, 16297, 2414, 13877, 4898, 9865, 5460, 13845>>,
       <<0, 46, 187, 2866, 4937, 12164, 12151, 13875>>,
       <<-1, 77, 10600, 4567, 2530, 15875, 14974, 2859>>,
       <<0, 3216, 7226, 6653, 12585, 10670, 10282, 2036>>,
       <<0, 15662, 13626, 1120, 11079, 9692, 13602, 9124>>,
       <<-1, 10033, 14046, 15311, 14375, 5517, 2760, 8887>>,
       <<-1, 1991, 10766, 3826, 9194, 9023, 15499, 4802>>,
       <<0, 9229, 10721, 5571, 1134, 5546, 10301, 7975>>,
       <<0, 12545, 12173, 15508, 2612, 3213, 8567, 2082>>,
       <<-1, 4644, 4713, 10062, 1868, 11850, 13941, 1147>>,
       <<-1, 6187, 824, 6777, 5595, 7159, 13970, 10456>>,
       <<0, 13779, 13784, 2172, 4820, 469, 11884, 747>>,
       <<0, 7439, 16099, 12996, 7994, 1732, 937, 7126>>,
       <<-1, 1115, 10205, 10136, 4756, 4353, 5508, 15139>>,
       <<-1, 11998, 13097, 11599, 12947, 11347, 2701, 6380>>,
       <<0, 16145, 12043, 2140, 12868, 1295, 5170, 5739>>,
       <<0, 1154, 14472, 5984, 10759, 5204, 7205, 4499>>,
       <<-1, 7, 3351, 12372, 7019, 2570, 11429, 872>> >>,
    << <<0, 2121, 10858, 9370, 5755, 9144, 2549, 4034>>,
       <<0, 4207, 9772, 7206, 14822, 15131, 1533, 13679>>,
       <<0, 6222, 11038, 13864, 3830, 9542, 2116, 6027>>,
       <<0, 8132, 15736, 15022, 14187, 8870, 1753, 9049>>,
       <<0, 9906, 4706, 6172, 9233, 5129, 15073, 2061>>,
       <<0, 11512, 12959, 6105, 189, 3376, 9842, 8912>>,
       <<0, 12925, 6847, 15333, 1756, 14154, 10688, 4783>>,
       <<0, 14120, 6216, 5395, 8957, 12855, 11997, 15605>>,
       <<0, 15077, 9044, 9490, 2679, 4195, 9279, 13570>>,
       <<0, 15780, 13384, 10830, 986, 4596, 7825, 8368>>,
       <<0, 16218, 5423, 13755, 8165, 8514, 4824, 9820>>,
       <<0, 16382, 11904, 4430, 11878, 5160, 9552, 1458>>,
       <<0, 16271, 3851, 13678, 15393, 1583, 4586, 13103>>,
       <<0, 15885, 12027, 15990, 16191, 13878, 1179, 10978>>,
       <<0, 15232, 11723, 11014, 15997, 8218, 505, 9109>>,
       <<0, 14323, 2888, 4470, 10288, 13647, 8791, 9170>>,
       <<0, 13172, 7095, 5853, 15439, 7410, 834, 4714>>,
       <<0, 11799, 14164, 11725, 1138, 15966, 3793, 3636>>,
       <<0, 10228, 9583, 10078, 1365, 2897, 15583, 3994>>,
       <<0, 8485, 897, 6441, 9870, 1991, 15239, 2251>>,
       <<0, 6598, 10408, 12666, 12943, 5454, 3274, 5090>>,
       <<0, 4601, 1540, 13875, 4980, 1933, 2973, 12933>>,
       <<0, 2526, 1144, 2402, 6852, 9034, 9326, 12716>>,
       <<0, 408, 8295, 6685, 2961, 1845, 14619, 16200>>,
       <<-1, 14668, 1040, 5275, 5982, 9046, 12086, 14271>>,
       <<-1, 12572, 8474, 10399, 2826, 5565, 11887, 9080>>,
       <<-1, 10541, 2569, 4659, 6725, 15457, 7580, 7020>>,
       <<-1, 8608, 3121, 13118, 14280, 14840, 11577, 5447>>,
       <<-1, 6806, 2781, 15287, 5396, 10425, 14300, 14015>>,
       <<-1, 5165, 7222, 7378, 13245, 1826, 15988, 9038>>,
       <<-1, 3713, 10382, 5852, 3681, 15230, 246, 12212>>,
       <<-1, 2475, 3227, 8597, 5071, 2118, 11470, 10449>>,
       <<-1, 1470, 16157, 1885, 13540, 13203, 724, 13536>>,
       <<-1, 717, 14945, 6473, 8133, 10725, 9458, 677>>,
       <<-1, 228, 10763, 13777, 4489, 8099, 633, 10800>>,
       <<-1, 11, 7530, 1759, 16382, 14771, 13225, 738>>,
       <<-1, 69, 16018, 12894, 8867, 521, 7560, 3145>>,
       <<-1, 403, 3700, 3909, 15833, 4942, 2488, 8060>>,
       <<-1, 1005, 9700, 7902, 8326, 6436, 2952, 5514>>,
       <<-1, 1866, 15277, 9505, 5396, 6794, 11654, 10200>>,
       <<-1, 2972, 12156, 7025, 11192, 14871, 6103, 5607>>,
       <<-1, 4304, 6530, 13626, 15154, 3458, 248, 1362>>,
       <<-1, 5839, 7817, 7461, 13292, 11398, 10022, 15515>>,
       <<-1, 7552, 2075, 2399, 7428, 3847, 8521, 10373>>,
       <<-1, 9413, 8289, 6772, 14149, 14060, 1323, 6010>>,
       <<-1, 11392, 4409, 15770, 15211, 5747, 11320, 10153>>,
       <<-1, 13455, 1535, 4611, 6528, 13188, 14826, 8731>>,
       <<-1, 15567, 3954, 10261, 9698, 11787, 12305, 7786>>,
       <<0, 1309, 2348, 9615, 12808, 10927, 1154, 11221>>,
       <<0, 3412, 16370, 13474, 13481, 2079, 10759, 68>>,
       <<0, 5459, 6221, 11547, 3477, 2136, 11887, 11631>>,
       <<0, 7413, 13495, 8650, 4501, 12375, 13422, 7299>>,
       <<0, 9243, 6848, 10952, 7510, 8607, 14414, 10588>>,
       <<0, 10917, 5768, 9466, 14288, 10479, 4730, 12129>>,
       <<0, 12407, 7154, 11177, 6551, 14264, 9288, 10698>>,
       <<0, 13688, 9480, 551, 3595, 15737, 139, 3354>>,
       <<0, 14739, 3330, 12046, 619, 2584, 9721, 15336>>,
       <<0, 15541, 10126, 9012, 6161, 6152, 10450, 9462>>,
       <<0, 16082, 5082, 7383, 12788, 7760, 7539, 9344>>,
       <<0, 16352, 2856, 14798, 2714, 15286, 9429, 11081>>,
       <<0, 16346, 10912, 1669, 1958, 10928, 6626, 909>>,
       <<0, 16065, 14383, 13876, 7609, 8572, 8823, 15204>>,
       <<0, 15514, 8823, 15584, 8213, 7560, 11818, 5984>> >>,
    << <<0, 14701, 15279, 9921, 7068, 1320, 16190, 16123>>,
       <<-1, 3406, 9614, 9151, 3321, 15816, 14218, 3363>>,
       <<-1, 13137, 4018, 6443, 14886, 8460, 16253, 14727>>,
       <<0, 15843, 5364, 595, 5219, 6808, 14604, 4936>>,
       <<-1, 5645, 13615, 9836, 10803, 5747, 3136, 2558>>,
       <<-1, 10019, 4374, 1008, 4555, 9312, 9007, 11266>>,
       <<0, 16356, 5345, 15902, 7938, 14800, 7811, 6587>>,
       <<-1, 8310, 16131, 9256, 8094, 4192, 469, 3736>>,
       <<-1, 7153, 12024, 1774, 148, 7223, 13371, 3001>>,
       <<0, 16220, 9537, 14106, 5017, 13070, 5707, 594>>,
       <<-1, 11296, 5557, 4497, 12868, 7222, 11981, 6167>>,
       <<-1, 4654, 4948, 7704, 14831, 127, 6133, 7595>>,
       <<0, 15441, 7847, 12700, 386, 5200, 13027, 5650>>,
       <<-1, 14483, 7967, 14687, 13963, 8869, 13921, 13090>>,
       <<-1, 2620, 1747, 10238, 11254, 13423, 4901, 7802>>,
       <<0, 14049, 15048, 10313, 8537, 6888, 7402, 4984>>,
       <<0, 1362, 225, 9851, 5481, 13402, 10320, 1603>>,
       <<-1, 1131, 13604, 7396, 14744, 2108, 7322, 900>>,
       <<0, 12101, 1545, 473, 1694, 8498, 384, 15411>>,
       <<0, 4570, 8511, 5977, 15693, 14869, 10197, 8599>>,
       <<-1, 248, 8237, 7035, 9627, 1504, 15427, 10930>>,
       <<0, 9672, 4962, 3184, 13971, 8205, 3703, 3540>>,
       <<0, 7597, 12191, 11093, 15443, 11258, 10890, 9087>>,
       <<-1, 5, 2612, 12183, 16201, 10061, 297, 13265>>,
       <<0, 6859, 14379, 9487, 14452, 2758, 11623, 6411>>,
       <<0, 10323, 10132, 14022, 11371, 16220, 3599, 13084>>,
       <<-1, 411, 7408, 12611, 850, 2455, 6578, 5347>>,
       <<0, 3775, 6033, 7636, 509, 1999, 5692, 10230>>,
       <<0, 12640, 422, 14626, 15613, 3829, 9052, 14396>>,
       <<-1, 1451, 4359, 15892, 13219, 7830, 4596, 13861>>,
       <<0, 541, 1899, 8453, 798, 7755, 9459, 828>>,
       <<0, 14455, 1478, 1340, 7144, 11570, 9467, 9442>>,
       <<-1, 3083, 5880, 15928, 12042, 15735, 12781, 4644>>,
       <<-1, 13669, 6574, 6919, 10479, 2449, 16148, 15080>>,
       <<0, 15696, 13443, 12354, 10274, 10635, 12261, 2133>>,
       <<-1, 5242, 16331, 7772, 11321, 4035, 6367, 3559>>,
       <<-1, 10521, 5833, 16169, 4133, 8669, 10263, 5271>>,
       <<0, 16315, 15825, 679, 16223, 16194, 7532, 3993>>,
       <<-1, 7844, 8546, 15884, 2765, 4030, 6247, 5400>>,
       <<-1, 7605, 13790, 133, 14473, 5707, 7496, 1123>>,
       <<0, 16287, 15876, 1962, 14579, 13640, 6738, 379>>,
       <<-1, 10784, 12270, 12955, 9438, 14743, 8583, 10668>>,
       <<-1, 5038, 8134, 5251, 14305, 14219, 11305, 8868>>,
       <<0, 15613, 15406, 8221, 13460, 3998, 6341, 2778>>,
       <<-1, 13947, 983, 10954, 13052, 11451, 12233, 520>>,
       <<-1, 2921, 2448, 4052, 7808, 12809, 13159, 8423>>,
       <<0, 14320, 10059, 6978, 13514, 16091, 6894, 12710>>,
       <<0, 822, 455, 4014, 12046, 10243, 13032, 3924>>,
       <<-1, 1337, 12798, 251, 9678, 5476, 7870, 12844>>,
       <<0, 12459, 4706, 15742, 10656, 14469, 7589, 10513>>,
       <<0, 4048, 6411, 12024, 2177, 8402, 1434, 5659>>,
       <<-1, 351, 3160, 12163, 15451, 15154, 8166, 2970>>,
       <<0, 10103, 12882, 14577, 10140, 667, 11769, 1018>>,
       <<0, 7114, 2998, 14406, 14064, 139, 5207, 6760>>,
       <<-1, 0, 8453, 9404, 9426, 4318, 7968, 6665>>,
       <<0, 7347, 8807, 9000, 1471, 2291, 9300, 13445>>,
       <<0, 9897, 13172, 9014, 5837, 9669, 10929, 3816>>,
       <<-1, 299, 10800, 10734, 7818, 15445, 9299, 860>>,
       <<0, 4299, 14131, 7669, 6502, 15593, 13235, 13913>>,
       <<0, 12288, 13878, 10502, 7220, 10534, 10465, 16124>>,
       <<-1, 1236, 12414, 8730, 15755, 15580, 10239, 1381>>,
       <<0, 1081, 10509, 13867, 683, 14347, 2037, 13595>>,
       <<0, 14192, 7800, 1687, 605, 7312, 9713, 770>> >>,
    << <<-1, 2774, 10538, 7987, 3358, 12275, 8608, 9095>>,
       <<0, 15155, 4474, 1476, 932, 6089, 10646, 12328>>,
       <<-1, 13116, 9231, 4366, 2595, 11057, 3255, 2590>>,
       <<-1, 4867, 5221, 5151, 13766, 11919, 8930, 15516>>,
       <<0, 16092, 5286, 3170, 15227, 388, 4482, 16366>>,
       <<-1, 9980, 6502, 16170, 12356, 13134, 14749, 12835>>,
       <<-1, 7422, 11134, 4277, 5599, 5060, 3205, 11135>>,
       <<0, 16382, 14078, 10331, 8866, 1559, 8235, 11616>>,
       <<-1, 7101, 8137, 9574, 8597, 10369, 10753, 4565>>,
       <<-1, 10338, 1043, 4003, 14691, 10068, 16334, 13743>>,
       <<0, 16015, 3451, 2231, 9191, 9162, 10894, 2997>>,
       <<-1, 4595, 8572, 13146, 433, 13078, 6445, 12937>>,
       <<-1, 13496, 5647, 11594, 7185, 2724, 10799, 1597>>,
       <<0, 15004, 2409, 8127, 5561, 3317, 6224, 15002>>,
       <<-1, 2563, 2534, 5893, 3956, 2360, 7380, 4872>>,
       <<0, 386, 10452, 12568, 7759, 4701, 10472, 13381>>,
       <<0, 13390, 4723, 3726, 12597, 13582, 5412, 10175>>,
       <<-1, 1086, 686, 8222, 12359, 691, 14149, 7328>>,
       <<0, 3645, 6520, 10964, 3888, 9214, 9716, 3495>>,
       <<0, 11238, 7724, 6788, 14410, 16117, 14422, 6720>>,
       <<-1, 223, 8654, 13784, 1970, 4352, 11147, 13417>>,
       <<0, 6757, 11522, 2370, 10201, 10674, 7663, 11082>>,
       <<0, 8635, 2397, 14224, 7486, 12179, 11966, 9777>>,
       <<-1, 10, 4348, 11640, 9468, 3439, 857, 3306>>,
       <<0, 9598, 8456, 16245, 4765, 5695, 802, 10621>>,
       <<0, 5684, 14781, 3395, 12851, 3266, 16088, 487>>,
       <<-1, 454, 13456, 5557, 14736, 1682, 475, 9402>>,
       <<0, 12053, 11573, 11825, 11557, 12768, 8282, 13075>>,
       <<0, 2506, 4352, 16107, 5429, 6926, 12960, 1834>>,
       <<-1, 1539, 5501, 3376, 7297, 13650, 9817, 15791>>,
       <<0, 14024, 10421, 11530, 13789, 2741, 4018, 13572>>,
       <<-1, 15610, 15390, 11027, 14590, 1535, 12388, 7534>>,
       <<-1, 3220, 3902, 2258, 11943, 9418, 2595, 10150>>,
       <<0, 15432, 2009, 10964, 13206, 5293, 10562, 5748>>,
       <<-1, 12362, 10992, 15257, 1771, 10341, 16200, 1116>>,
       <<-1, 5429, 16348, 13981, 13333, 10751, 74, 12010>>,
       <<0, 16219, 10158, 2410, 7666, 8742, 2032, 3456>>,
       <<-1, 9275, 15735, 2255, 5303, 5217, 13151, 1370>>,
       <<-1, 8079, 13716, 12186, 2693, 16318, 4881, 55>>,
       <<0, 16355, 8031, 14313, 2333, 7251, 7610, 13174>>,
       <<-1, 6474, 13386, 4284, 10034, 3789, 14528, 9274>>,
       <<-1, 11063, 4887, 1125, 11922, 13207, 10978, 9937>>,
       <<0, 15834, 4500, 13745, 16102, 1385, 8276, 12512>>,
       <<-1, 4071, 12738, 910, 14156, 7424, 310, 10855>>,
       <<-1, 14260, 8516, 14419, 16298, 4088, 15081, 11343>>,
       <<0, 14676, 14965, 5250, 15654, 799, 8600, 12458>>,
       <<-1, 2163, 6297, 15718, 15093, 585, 6598, 2807>>,
       <<0, 1159, 863, 7162, 3280, 1167, 5261, 10838>>,
       <<0, 12929, 14804, 9009, 6327, 12660, 51, 14694>>,
       <<-1, 826, 5045, 11391, 5379, 9318, 11174, 12088>>,
       <<0, 4395, 333, 7035, 10499, 9924, 7704, 4522>>,
       <<0, 10663, 7074, 12528, 7714, 2380, 1335, 759>>,
       <<-1, 114, 4350, 9661, 15629, 3908, 12113, 938>>,
       <<0, 7454, 6832, 3667, 8531, 15290, 1153, 13062>>,
       <<0, 7968, 9078, 3999, 15217, 890, 15749, 472>>,
       <<-1, 55, 14149, 2147, 3518, 1795, 8103, 4576>>,
       <<0, 10214, 5417, 11680, 16044, 13487, 6911, 13303>>,
       <<0, 4953, 8811, 6302, 14702, 11641, 14665, 3020>>,
       <<-1, 653, 7347, 4866, 4982, 11307, 8306, 1129>>,
       <<0, 12563, 14436, 13354, 10694, 11405, 8388, 10698>>,
       <<0, 1739, 8387, 12366, 4413, 11093, 6895, 577>>,
       <<-1, 1883, 196, 2278, 14291, 3009, 6121, 9164>>,
       <<0, 14408, 11054, 4405, 7023, 5578, 3334, 9035>> >>,
    << <<-1, 14839, 9843, 3527, 10381, 3780, 15150, 10433>>,
       <<-1, 13308, 15644, 7133, 3228, 11245, 2350, 15593>>,
       <<-1, 11805, 11355, 68, 11820, 2916, 10305, 8562>>,
       <<-1, 10343, 3314, 13338, 4058, 15177, 3011, 15944>>,
       <<-1, 8934, 8299, 1564, 1078, 6656, 3436, 6737>>,
       <<-1, 7592, 2466, 2962, 7501, 3867, 6402, 60>>,
       <<-1, 6328, 1447, 2712, 15319, 10555, 2392, 9368>>,
       <<-1, 5153, 9449, 12534, 12586, 11226, 13079, 5340>>,
       <<-1, 4079, 1231, 14740, 3866, 9747, 5014, 2144>>,
       <<-1, 3114, 2495, 10399, 7336, 14709, 3927, 13233>>,
       <<-1, 2267, 6571, 1059, 305, 13010, 10079, 4249>>,
       <<-1, 1546, 5930, 9409, 7512, 12883, 5988, 16156>>,
       <<-1, 957, 7472, 10530, 12004, 7437, 1145, 15406>>,
       <<-1, 505, 15200, 16159, 663, 11721, 6734, 11047>>,
       <<-1, 195, 13075, 6297, 15580, 8717, 10595, 2902>>,
       <<-1, 29, 13577, 39, 13939, 8030, 7721, 11105>>,
       <<-1, 9, 8153, 7132, 4556, 8983, 14323, 8858>>,
       <<-1, 134, 16155, 1002, 840, 16355, 4372, 14430>>,
       <<-1, 405, 2888, 10236, 14330, 6465, 7583, 2774>>,
       <<-1, 817, 10852, 4698, 11121, 6664, 4003, 2703>>,
       <<-1, 1368, 12630, 11231, 3454, 16093, 2121, 2906>>,
       <<-1, 2053, 9734, 14524, 8094, 9140, 15530, 5693>>,
       <<-1, 2866, 550, 7307, 399, 15170, 10473, 5320>>,
       <<-1, 3798, 13995, 3469, 3056, 11398, 144, 546>>,
       <<-1, 4843, 12270, 15364, 6147, 5267, 3521, 9947>>,
       <<-1, 5991, 6763, 5109, 7323, 12210, 9558, 7735>>,
       <<-1, 7231, 10247, 9876, 13770, 15911, 4115, 11540>>,
       <<-1, 8553, 5611, 13716, 3600, 2200, 542, 2795>>,
       <<-1, 9944, 13004, 3697, 441, 3989, 9837, 5933>>,
       <<-1, 11393, 9630, 8026, 6017, 14801, 15845, 4162>>,
       <<-1, 12886, 13481, 13033, 7146, 15960, 8700, 9895>>,
       <<-1, 14411, 3297, 3139, 13684, 12608, 9091, 291>>,
       <<-1, 15953, 2423, 13000, 5460, 15674, 418, 12567>>,
       <<0, 1114, 15261, 7037, 11805, 6853, 3711, 9452>>,
       <<0, 2650, 12882, 1899, 6589, 11821, 1664, 2529>>,
       <<0, 4163, 574, 8448, 14142, 12121, 8888, 4073>>,
       <<0, 5638, 3455, 8153, 12479, 188, 4932, 1319>>,
       <<0, 7063, 2899, 390, 10781, 2347, 11222, 12595>>,
       <<0, 8425, 3988, 14205, 8096, 7129, 15752, 15640>>,
       <<0, 9712, 4602, 1481, 838, 14053, 8503, 10999>>,
       <<0, 10912, 13562, 13117, 2452, 9940, 12842, 2901>>,
       <<0, 12016, 3162, 6793, 8924, 8876, 13926, 7585>>,
       <<0, 13012, 9023, 8981, 2031, 2360, 6960, 6761>>,
       <<0, 13893, 461, 10391, 7767, 1846, 15628, 8371>>,
       <<0, 14649, 12851, 8286, 2002, 15693, 3371, 15683>>,
       <<0, 15276, 1315, 6760, 11897, 5808, 8601, 8333>>,
       <<0, 15766, 5546, 4695, 8495, 7361, 1143, 10329>>,
       <<0, 16116, 3165, 8133, 12900, 14339, 3127, 9943>>,
       <<0, 16322, 8663, 13894, 3539, 12020, 12181, 2652>>,
       <<0, 16383, 8320, 2548, 4499, 7288, 882, 9563>>,
       <<0, 16298, 9621, 5510, 14544, 8031, 12535, 157>>,
       <<0, 16068, 8573, 10520, 4325, 10485, 7737, 3029>>,
       <<0, 15695, 5976, 5242, 12730, 12630, 9259, 3960>>,
       <<0, 15182, 7122, 11261, 12031, 3362, 4525, 1740>>,
       <<0, 14534, 4931, 4608, 7474, 12496, 8183, 8404>>,
       <<0, 13756, 12047, 6569, 4432, 265, 9896, 955>>,
       <<0, 12856, 10848, 16023, 3967, 411, 9429, 1560>>,
       <<0, 11842, 1588, 4484, 11969, 2755, 22, 10919>>,
       <<0, 10722, 1222, 6569, 15563, 8328, 8852, 8835>>,
       <<0, 9506, 9327, 1383, 1451, 3981, 2825, 13069>>,
       <<0, 8206, 6641, 6534, 6629, 6184, 11207, 3776>>,
       <<0, 6833, 2640, 7294, 12574, 1383, 4400, 15062>>,
       <<0, 5399, 1078, 468, 5309, 1493, 8456, 755>> >>,
    << <<0, 3916, 14586, 6246, 2284, 3636, 5506, 12265>>,
       <<0, 7606, 10208, 3312, 11167, 10023, 3191, 6160>>,
       <<0, 10855, 3517, 4755, 1638, 14868, 15597, 456>>,
       <<0, 13474, 4344, 11879, 5817, 13697, 12469, 11568>>,
       <<0, 15311, 14490, 9882, 12352, 4725, 12110, 9329>>,
       <<0, 16261, 8206, 14996, 4570, 3369, 9682, 4905>>,
       <<0, 16268, 691, 10239, 10204, 7751, 2603, 11392>>,
       <<0, 15331, 2113, 5253, 196, 13315, 1707, 6198>>,
       <<0, 13505, 1587, 11045, 7218, 9817, 6764, 9685>>,
       <<0, 10895, 13852, 13142, 13471, 9641, 9813, 5633>>,
       <<0, 7654, 11413, 11446, 8954, 29, 13774, 10024>>,
       <<0, 3969, 10135, 5533, 13082, 14654, 3495, 15801>>,
       <<0, 54, 5327, 694, 6277, 11881, 15893, 13503>>,
       <<-1, 12519, 14436, 1960, 2787, 12009, 14949, 13983>>,
       <<-1, 8825, 8751, 7624, 12410, 9643, 12976, 4144>>,
       <<-1, 5569, 8773, 9132, 11713, 2032, 11209, 5674>>,
       <<-1, 2940, 11709, 5339, 9655, 14556, 11805, 8831>>,
       <<-1, 1091, 8658, 3670, 14381, 15061, 3485, 2428>>,
       <<-1, 129, 3590, 15685, 12166, 13695, 262, 7412>>,
       <<-1, 109, 9754, 108, 9694, 11629, 12367, 5290>>,
       <<-1, 1033, 13025, 8819, 2815, 13700, 7708, 3182>>,
       <<-1, 2848, 3602, 528, 13036, 7751, 510, 4064>>,
       <<-1, 5447, 10542, 5576, 6797, 6818, 6018, 10893>>,
       <<-1, 8681, 5143, 10411, 4594, 13240, 1081, 15656>>,
       <<-1, 12361, 11414, 12254, 8984, 2060, 12477, 5816>>,
       <<-1, 16275, 5739, 11481, 2157, 2697, 10963, 6710>>,
       <<0, 3811, 4997, 5583, 5146, 1842, 9095, 569>>,
       <<0, 7510, 3695, 6069, 2522, 16154, 1580, 10797>>,
       <<0, 10773, 9755, 9822, 7472, 7858, 11501, 8146>>,
       <<0, 13412, 2583, 1665, 4272, 12092, 10830, 1398>>,
       <<0, 15272, 14590, 5499, 16382, 4848, 11092, 4381>>,
       <<0, 16247, 14451, 3562, 1069, 11140, 14937, 12873>>,
       <<0, 16280, 9636, 14326, 9716, 16367, 15473, 13967>>,
       <<0, 15369, 1838, 9672, 9389, 14589, 1942, 4570>>,
       <<0, 13566, 5154, 1291, 6136, 5852, 10702, 4190>>,
       <<0, 10976, 12244, 9264, 859, 9799, 9769, 620>>,
       <<0, 7750, 9679, 9103, 7373, 15539, 4530, 12647>>,
       <<0, 4074, 15462, 10388, 8895, 14011, 14496, 2596>>,
       <<0, 162, 15941, 16141, 5246, 176, 610, 9824>>,
       <<-1, 12625, 9023, 11865, 9617, 13262, 15996, 9182>>,
       <<-1, 8922, 1594, 9845, 6792, 4934, 3662, 11083>>,
       <<-1, 5651, 6423, 14373, 6855, 7802, 10239, 5058>>,
       <<-1, 3003, 1924, 6313, 4185, 7503, 12112, 1648>>,
       <<-1, 1130, 14064, 3120, 8930, 4183, 5344, 14504>>,
       <<-1, 143, 3201, 5204, 6258, 10873, 3634, 6411>>,
       <<-1, 97, 6672, 13855, 13434, 12381, 15924, 2128>>,
       <<-1, 996, 2449, 11455, 5310, 9854, 13743, 15287>>,
       <<-1, 2787, 4917, 8072, 2193, 5187, 13100, 15163>>,
       <<-1, 5366, 16097, 12386, 4375, 15029, 708, 12350>>,
       <<-1, 8585, 9661, 5851, 1451, 9558, 15764, 10037>>,
       <<-1, 12256, 7545, 16354, 15964, 2193, 3579, 5125>>,
       <<-1, 16166, 11557, 11222, 14275, 13022, 13385, 16260>>,
       <<0, 3705, 9046, 3378, 9998, 6139, 11687, 6450>>,
       <<0, 7413, 8155, 5323, 6318, 1609, 10412, 6102>>,
       <<0, 10691, 8231, 6475, 3177, 9751, 7575, 7775>>,
       <<0, 13349, 7541, 13872, 14360, 6055, 2521, 3543>>,
       <<0, 15233, 3685, 12367, 1716, 10687, 11397, 4159>>,
       <<0, 16233, 8988, 11670, 251, 9221, 1878, 2801>>,
       <<0, 16292, 6851, 12311, 6840, 2313, 9323, 15331>>,
       <<0, 15406, 6874, 3568, 3881, 902, 9187, 9204>>,
       <<0, 13626, 15329, 12778, 12638, 1420, 11620, 6245>>,
       <<0, 11057, 2727, 7234, 4759, 418, 10461, 4097>>,
       <<0, 7846, 2361, 206, 12374, 5308, 2425, 5618>> >>,
    << <<0, 4180, 1469, 14437, 1144, 16267, 14128, 5505>>,
       <<-1, 8300, 8050, 4805, 11929, 12867, 2814, 1740>>,
       <<0, 11451, 14716, 13519, 4482, 14900, 10260, 14611>>,
       <<-1, 2321, 11266, 12262, 11850, 6221, 8569, 7210>>,
       <<0, 15741, 15949, 178, 552, 14927, 10827, 8721>>,
       <<-1, 4, 4774, 7794, 7992, 13051, 4070, 3343>>,
       <<0, 15933, 5037, 14326, 11976, 3609, 5788, 4943>>,
       <<-1, 1951, 11199, 8704, 1674, 10085, 8033, 8676>>,
       <<0, 11976, 1354, 7269, 5378, 13336, 12347, 8720>>,
       <<-1, 7656, 13454, 8093, 4970, 7131, 13608, 2661>>,
       <<0, 4900, 10526, 14637, 4225, 8965, 2795, 13496>>,
       <<-1, 15634, 4199, 13752, 3820, 378, 1953, 6279>>,
       <<-1, 12933, 3620, 3217, 1758, 15904, 9635, 2473>>,
       <<0, 7422, 14784, 16330, 2402, 7943, 12453, 8620>>,
       <<-1, 5480, 4579, 11617, 9641, 15450, 15632, 15091>>,
       <<0, 13662, 13855, 16060, 1008, 11846, 8952, 6932>>,
       <<-1, 866, 5607, 4631, 10748, 14989, 9533, 13202>>,
       <<0, 16345, 6402, 11363, 2685, 5434, 4941, 1862>>,
       <<-1, 292, 12140, 9428, 5772, 12099, 15179, 618>>,
       <<0, 14772, 1356, 9476, 6175, 12706, 3082, 6620>>,
       <<-1, 3908, 13508, 6923, 13339, 7986, 10045, 10404>>,
       <<0, 9352, 9245, 4325, 7134, 3180, 2843, 13944>>,
       <<-1, 10773, 1183, 6960, 4587, 7568, 14249, 11552>>,
       <<0, 1497, 15016, 448, 12065, 7081, 1121, 1408>>,
       <<0, 2714, 3907, 9105, 9749, 9049, 9277, 3545>>,
       <<-1, 9637, 4192, 2154, 8408, 14218, 5331, 13235>>,
       <<0, 10332, 11434, 402, 56, 7381, 9465, 14195>>,
       <<-1, 3149, 4038, 15363, 13601, 2484, 13305, 5953>>,
       <<0, 15260, 13605, 517, 8210, 5272, 7817, 3050>>,
       <<-1, 107, 2832, 15530, 15522, 12452, 11153, 13333>>,
       <<0, 16215, 8143, 11349, 6711, 9134, 10378, 11154>>,
       <<-1, 1303, 1645, 8330, 971, 202, 2326, 14187>>,
       <<0, 12948, 2147, 15903, 13298, 6357, 7354, 13292>>,
       <<-1, 6425, 10570, 8127, 6317, 5287, 12025, 5616>>,
       <<0, 6309, 7493, 1851, 13057, 6522, 4133, 2180>>,
       <<-1, 14141, 802, 12655, 8386, 15699, 7686, 4406>>,
       <<-1, 14411, 16199, 12932, 6952, 10789, 663, 12582>>,
       <<0, 6056, 7380, 10905, 7004, 7224, 15418, 13521>>,
       <<-1, 6643, 15944, 9841, 5588, 16208, 7417, 5376>>,
       <<0, 12778, 15279, 8678, 15494, 13906, 6547, 4097>>,
       <<-1, 1411, 15901, 16167, 3139, 5531, 13201, 366>>,
       <<0, 16174, 2640, 2810, 11545, 6982, 13114, 13280>>,
       <<-1, 78, 3910, 241, 2719, 4957, 14711, 12190>>,
       <<0, 15358, 1961, 8515, 63, 5602, 12448, 3168>>,
       <<-1, 2990, 679, 6948, 1938, 14501, 13588, 8264>>,
       <<0, 10543, 4607, 6236, 868, 13566, 8598, 4949>>,
       <<-1, 9389, 3805, 12642, 11143, 4124, 4515, 4758>>,
       <<0, 2983, 4689, 1930, 6783, 8898, 15021, 7524>>,
       <<0, 1225, 10688, 787, 16366, 2172, 2580, 15268>>,
       <<-1, 11030, 8721, 755, 8774, 3833, 3667, 887>>,
       <<0, 9126, 15548, 14922, 1520, 10435, 7686, 2558>>,
       <<-1, 4087, 10845, 12270, 2162, 2870, 15874, 14468>>,
       <<0, 14651, 14089, 4466, 15, 14467, 10348, 7924>>,
       <<-1, 346, 6421, 12377, 16007, 13663, 10565, 12930>>,
       <<0, 16361, 14135, 13410, 2900, 2092, 15524, 1202>>,
       <<-1, 780, 13722, 6807, 3464, 11777, 8243, 11241>>,
       <<0, 13811, 11857, 9308, 14190, 104, 5389, 2139>>,
       <<-1, 5277, 14451, 12314, 7101, 3732, 8829, 15577>>,
       <<0, 7665, 6931, 6805, 15784, 5264, 6231, 7342>>,
       <<-1, 12666, 10305, 10376, 13893, 3578, 6868, 9682>>,
       <<-1, 15907, 4496, 13536, 12842, 15960, 8982, 5226>>,
       <<0, 4639, 4401, 14349, 11822, 7242, 2892, 3935>>,
       <<-1, 7889, 4112, 7342, 1878, 14585, 15682, 6003>> >>,
    << <<0, 11787, 16071, 2439, 12583, 9018, 10848, 11498>>,
       <<-1, 10, 3521, 11082, 14223, 10786, 9258, 12184>>,
       <<0, 10955, 9746, 6696, 3974, 9513, 4348, 672>>,
       <<0, 1156, 3341, 5661, 11711, 16057, 15361, 5645>>,
       <<-1, 3822, 6724, 8640, 13093, 9246, 9453, 9948>>,
       <<0, 16292, 2324, 12996, 10820, 2727, 7379, 10748>>,
       <<-1, 6315, 6849, 11887, 10020, 8256, 5044, 7997>>,
       <<-1, 14077, 5852, 5600, 11099, 13110, 9367, 4582>>,
       <<0, 13272, 9232, 1986, 9541, 14966, 14180, 2947>>,
       <<-1, 254, 12080, 8247, 12755, 5203, 14685, 9475>>,
       <<0, 9131, 5978, 7617, 14348, 6752, 12963, 13472>>,
       <<0, 3445, 9506, 14379, 470, 9580, 7829, 5912>>,
       <<-1, 2466, 10525, 4504, 1504, 11474, 16360, 11922>>,
       <<0, 15885, 15720, 11544, 8228, 179, 12148, 358>>,
       <<-1, 8235, 6275, 15137, 9107, 7846, 15269, 14835>>,
       <<-1, 11816, 10857, 7520, 508, 3116, 11460, 5733>>,
       <<0, 14492, 12399, 6785, 11205, 16072, 14501, 5823>>,
       <<-1, 820, 9083, 2497, 6225, 11725, 120, 13956>>,
       <<0, 7125, 3903, 13283, 12967, 4232, 11651, 9579>>,
       <<0, 5666, 5253, 11829, 4620, 3551, 6822, 12202>>,
       <<-1, 1388, 1768, 8661, 10122, 247, 7228, 13919>>,
       <<0, 15163, 5391, 6665, 2752, 15772, 16302, 12801>>,
       <<-1, 10317, 10950, 5526, 7757, 8371, 1074, 15949>>,
       <<-1, 9646, 15556, 459, 7689, 9488, 9896, 12758>>,
       <<0, 15424, 4171, 11759, 9759, 2719, 14444, 6086>>,
       <<-1, 1696, 6472, 7525, 6483, 11092, 8880, 2815>>,
       <<0, 4977, 2900, 800, 11145, 9946, 5008, 729>>,
       <<0, 7774, 3080, 16126, 1387, 8280, 14227, 6521>>,
       <<-1, 608, 4774, 8815, 293, 316, 5981, 392>>,
       <<0, 14138, 10573, 1629, 7776, 2999, 15365, 2266>>,
       <<-1, 12520, 13023, 8675, 10387, 15283, 5080, 3356>>,
       <<-1, 7611, 7179, 4100, 1098, 13927, 5586, 3951>>,
       <<0, 16048, 8216, 16235, 14166, 2923, 13838, 1538>>,
       <<-1, 2864, 13313, 2590, 10010, 10600, 13150, 15762>>,
       <<0, 2729, 15899, 13961, 7573, 15994, 7935, 8271>>,
       <<0, 9727, 3174, 467, 9860, 10118, 267, 14725>>,
       <<-1, 142, 11907, 4379, 6425, 10199, 14903, 8712>>,
       <<0, 12832, 5242, 13431, 11615, 7325, 12705, 10222>>,
       <<-1, 14800, 14359, 3734, 3680, 12129, 6958, 2519>>,
       <<-1, 5750, 11078, 15866, 4435, 3021, 259, 2773>>,
       <<0, 16353, 1024, 6174, 3681, 9488, 6975, 12712>>,
       <<-1, 4302, 8717, 15635, 16266, 15504, 952, 3746>>,
       <<0, 428, 6273, 13856, 16293, 13766, 10020, 2088>>,
       <<0, 11486, 7108, 4659, 13237, 16261, 8653, 15006>>,
       <<-1, 0, 11272, 9845, 11155, 3954, 607, 5458>>,
       <<0, 11270, 6144, 11486, 6109, 15942, 1688, 12123>>,
       <<0, 728, 8089, 7133, 3690, 9500, 9407, 7316>>,
       <<-1, 4101, 11958, 4363, 12511, 7275, 504, 12435>>,
       <<0, 16331, 14266, 9794, 6272, 2768, 11479, 3154>>,
       <<-1, 5980, 14979, 11767, 2199, 2471, 5491, 1714>>,
       <<-1, 14502, 4292, 15062, 4276, 7027, 8729, 6910>>,
       <<0, 13016, 14162, 4202, 13770, 1828, 1295, 11563>>,
       <<-1, 185, 75, 9565, 10356, 7856, 14308, 2532>>,
       <<0, 9483, 15145, 3338, 11056, 9338, 9068, 10892>>,
       <<0, 3025, 9821, 13877, 15476, 7353, 8648, 6764>>,
       <<-1, 2697, 7310, 2623, 9692, 3310, 1775, 13052>>,
       <<0, 15985, 5707, 16181, 14836, 3959, 1939, 755>>,
       <<-1, 7866, 8614, 7895, 12933, 5859, 13479, 14445>>,
       <<-1, 12229, 10244, 16282, 11632, 891, 8548, 9403>>,
       <<0, 14287, 16370, 13317, 11704, 286, 13499, 14082>>,
       <<-1, 692, 80, 16215, 16204, 4332, 12742, 13463>>,
       <<0, 7508, 9078, 8125, 7192, 13475, 4049, 6065>>,
       <<0, 5262, 7132, 4747, 830, 262, 4588, 7343>> >>,
    << <<-1, 1565, 13081, 5883, 8279, 14082, 4603, 4750>>,
       <<-1, 3740, 8770, 12868, 2034, 12618, 4956, 5>>,
       <<0, 4030, 5027, 1710, 15658, 7652, 16018, 12740>>,
       <<0, 16082, 4569, 1622, 8819, 10179, 11288, 8781>>,
       <<0, 9691, 11758, 436, 4392, 12735, 16075, 1938>>,
       <<-1, 8571, 1159, 4707, 878, 4829, 10912, 3138>>,
       <<-1, 25, 16185, 12527, 14912, 13180, 1438, 2490>>,
       <<-1, 10239, 10460, 11912, 13145, 6839, 14476, 5120>>,
       <<0, 11115, 6625, 6919, 6995, 4442, 7710, 13676>>,
       <<0, 15628, 7469, 16256, 15866, 6904, 9025, 12962>>,
       <<0, 2219, 6565, 14902, 3476, 10428, 15871, 15897>>,
       <<-1, 2649, 3652, 6035, 4033, 15965, 9562, 15963>>,
       <<-1, 2445, 9083, 6261, 5996, 14733, 12816, 4640>>,
       <<0, 1841, 15636, 1397, 3319, 9667, 4792, 1325>>,
       <<0, 15510, 1188, 5970, 4276, 3825, 14487, 1414>>,
       <<0, 11391, 13786, 11280, 13364, 11333, 12845, 11334>>,
       <<-1, 10593, 14560, 14258, 6500, 10059, 10100, 6468>>,
       <<-1, 51, 13285, 6356, 4229, 16055, 3253, 10061>>,
       <<-1, 8238, 13986, 8376, 1674, 14332, 10689, 11065>>,
       <<0, 9382, 7113, 5867, 12433, 5800, 8826, 11437>>,
       <<0, 16150, 9884, 4668, 13624, 13196, 12523, 9418>>,
       <<0, 4397, 14538, 8068, 3238, 4698, 9244, 3143>>,
       <<-1, 3985, 13842, 10053, 12027, 9953, 8382, 8343>>,
       <<-1, 1407, 8610, 4792, 2778, 7099, 15972, 9102>>,
       <<-1, 16003, 10581, 14230, 10849, 1003, 14972, 12500>>,
       <<0, 14651, 15426, 8757, 4117, 6865, 15733, 866>>,
       <<0, 12881, 15717, 5324, 14726, 7805, 12321, 6069>>,
       <<-1, 12723, 7308, 5433, 7117, 16145, 15140, 7022>>,
       <<-1, 378, 11698, 5266, 83, 556, 5109, 16133>>,
       <<-1, 6388, 3649, 13854, 12136, 6816, 12490, 16295>>,
       <<0, 7476, 8207, 2732, 176, 6343, 10094, 15321>>,
       <<0, 16375, 294, 9766, 12625, 12480, 380, 2064>>,
       <<0, 6495, 4913, 15347, 11142, 8920, 10476, 6523>>,
       <<-1, 5551, 393, 1743, 5695, 4768, 6658, 4190>>,
       <<-1, 645, 9576, 14057, 10601, 7105, 5589, 2125>>,
       <<-1, 13788, 5720, 313, 909, 12672, 5102, 7500>>,
       <<0, 13523, 11557, 7163, 2212, 624, 8560, 10460>>,
       <<0, 14134, 9849, 12754, 11206, 15959, 489, 1622>>,
       <<-1, 14920, 7944, 3678, 13200, 10244, 6717, 9435>>,
       <<-1, 1000, 10992, 4681, 14505, 10454, 13171, 8306>>,
       <<-1, 4721, 14118, 9040, 97, 10689, 15393, 14089>>,
       <<0, 5432, 12125, 15190, 4128, 11836, 3182, 15732>>,
       <<0, 16297, 9223, 12640, 1294, 10825, 3708, 14646>>,
       <<0, 8472, 15943, 10684, 14009, 11662, 15430, 10012>>,
       <<-1, 7315, 14852, 8802, 9013, 3848, 3430, 3727>>,
       <<-1, 173, 12740, 2350, 749, 8032, 2148, 1316>>,
       <<-1, 11620, 14788, 5054, 4127, 2181, 14495, 9409>>,
       <<0, 12146, 2668, 3177, 2633, 13949, 14229, 10951>>,
       <<0, 15126, 11058, 170, 835, 14938, 7856, 5154>>,
       <<0, 760, 8245, 5193, 275, 9126, 9872, 10682>>,
       <<-1, 1906, 3538, 5777, 9637, 13077, 11786, 11479>>,
       <<-1, 3270, 8020, 7416, 13068, 11987, 9084, 3139>>,
       <<0, 3288, 13565, 8348, 9069, 3557, 4651, 14599>>,
       <<0, 15919, 10913, 15656, 8676, 6525, 7844, 10238>>,
       <<0, 10294, 7356, 9182, 1485, 11982, 6203, 1383>>,
       <<-1, 9247, 15684, 1909, 7082, 4908, 5858, 7532>>,
       <<-1, 0, 13146, 7968, 2966, 13710, 16281, 12690>>,
       <<-1, 9541, 4304, 839, 11175, 2586, 2461, 10818>>,
       <<0, 10544, 11609, 4193, 6121, 11838, 15269, 4593>>,
       <<0, 15839, 14612, 12284, 577, 15776, 11882, 9041>>,
       <<0, 2970, 8223, 9769, 8607, 3858, 12600, 11618>>,
       <<-1, 3078, 10741, 15895, 8472, 6401, 6981, 15432>>,
       <<-1, 2060, 14121, 2560, 13143, 10102, 14420, 9813>> >>,
    << <<0, 1084, 4703, 250, 7340, 6385, 12637, 10539>>,
       <<-1, 14220, 2949, 5083, 8179, 10135, 4270, 2163>>,
       <<0, 3233, 14181, 3291, 12803, 13624, 13581, 2647>>,
       <<-1, 12094, 4389, 12027, 8583, 15007, 12270, 9845>>,
       <<0, 5326, 12944, 2850, 8129, 1063, 9992, 9728>>,
       <<-1, 10043, 8315, 10591, 16058, 6130, 15235, 1302>>,
       <<0, 7326, 6466, 238, 16204, 13765, 2856, 1215>>,
       <<-1, 8103, 13534, 9251, 4744, 7748, 2804, 9145>>,
       <<0, 9197, 10622, 8063, 2622, 11672, 11834, 15163>>,
       <<-1, 6309, 3354, 15207, 6413, 806, 560, 4783>>,
       <<0, 10907, 12594, 805, 139, 403, 15074, 7880>>,
       <<-1, 4691, 1368, 7173, 15838, 757, 14953, 7391>>,
       <<0, 12426, 13043, 6131, 2002, 11282, 2227, 4636>>,
       <<-1, 3277, 13273, 13557, 10336, 16006, 8214, 8519>>,
       <<0, 13728, 1946, 11769, 3527, 11905, 13649, 5633>>,
       <<-1, 2094, 2356, 2684, 1338, 684, 12703, 878>>,
       <<0, 14788, 15384, 4963, 9582, 8104, 13554, 8408>>,
       <<-1, 1160, 13452, 3625, 3651, 1115, 218, 2621>>,
       <<0, 15590, 11012, 50, 10108, 11662, 14484, 14246>>,
       <<-1, 494, 3158, 7080, 683, 11684, 7006, 13466>>,
       <<0, 16119, 4467, 10923, 5837, 5200, 8090, 8797>>,
       <<-1, 105, 15361, 11243, 3295, 14662, 13786, 4196>>,
       <<0, 16365, 7866, 10134, 14078, 6809, 12276, 16003>>,
       <<-1, 2, 14047, 3274, 11434, 10212, 13434, 1894>>,
       <<0, 16324, 16075, 11810, 5030, 5579, 11223, 3157>>,
       <<-1, 186, 12418, 2951, 10384, 11753, 12046, 3512>>,
       <<0, 15998, 7951, 6942, 7676, 9760, 3085, 9630>>,
       <<-1, 654, 6841, 7986, 11438, 12923, 13068, 13420>>,
       <<0, 15391, 11672, 1919, 12176, 5728, 13586, 12524>>,
       <<-1, 1397, 10540, 6176, 3576, 5475, 3563, 11743>>,
       <<0, 14515, 4792, 5748, 2745, 3658, 13670, 10326>>,
       <<-1, 2403, 6794, 1940, 7244, 12858, 13902, 3507>>,
       <<0, 13384, 9495, 11224, 14524, 9828, 10923, 7166>>,
       <<-1, 3654, 1827, 4860, 9369, 4931, 13412, 15933>>,
       <<0, 12019, 6267, 10253, 569, 15812, 7319, 14395>>,
       <<-1, 5127, 13483, 5220, 157, 10533, 5045, 9171>>,
       <<0, 10443, 10129, 13925, 12483, 7877, 3926, 3266>>,
       <<-1, 6798, 11977, 8601, 3045, 2777, 8150, 7094>>,
       <<0, 8684, 14623, 5436, 877, 12963, 603, 5511>>,
       <<-1, 8637, 9227, 11920, 13864, 3981, 11191, 6906>>,
       <<0, 6774, 268, 10387, 1416, 1467, 10933, 13428>>,
       <<-1, 10612, 1720, 5690, 14684, 3178, 7400, 2678>>,
       <<0, 4744, 7642, 2948, 245, 1680, 13299, 9935>>,
       <<-1, 12687, 12524, 15663, 14826, 16063, 14915, 15017>>,
       <<0, 2631, 13079, 7205, 16227, 11045, 15745, 10881>>,
       <<-1, 14828, 2919, 3804, 6626, 6785, 629, 13487>>,
       <<0, 473, 389, 6012, 9082, 7795, 15494, 15606>>,
       <<0, 611, 13898, 6317, 4368, 8836, 9176, 946>>,
       <<-1, 14689, 15766, 14348, 1670, 584, 9514, 15318>>,
       <<0, 2768, 13098, 3238, 3209, 3386, 11174, 7828>>,
       <<-1, 12552, 9481, 7763, 2186, 10862, 10433, 4243>>,
       <<0, 4877, 3999, 1973, 9467, 7788, 3695, 7762>>,
       <<-1, 10482, 5204, 3673, 13063, 12389, 14044, 5279>>,
       <<0, 6900, 4004, 7788, 15168, 9430, 1861, 791>>,
       <<-1, 8515, 7339, 15425, 15625, 10483, 7797, 1481>>,
       <<0, 8802, 5890, 12084, 2619, 12616, 4895, 628>>,
       <<-1, 6686, 7000, 14959, 1745, 11188, 10912, 14545>>,
       <<0, 10550, 4364, 2696, 14893, 9277, 12627, 10576>>,
       <<-1, 5027, 4884, 8557, 8054, 8891, 2851, 1899>>,
       <<0, 12113, 5625, 9111, 6845, 478, 3371, 6283>>,
       <<-1, 3567, 2076, 723, 9911, 3550, 11520, 9845>>,
       <<0, 13464, 3391, 9479, 15644, 14351, 11475, 11092>>,
       <<-1, 2331, 8089, 12071, 13669, 2101, 4168, 4685>> >>,
    << <<0, 14579, 3138, 11081, 3169, 13464, 2998, 7117>>,
       <<-1, 3080, 161, 9197, 2213, 14537, 5032, 7898>>,
       <<-1, 13945, 2219, 8721, 6397, 6127, 16181, 10264>>,
       <<0, 15529, 8748, 5690, 2105, 5256, 7387, 10610>>,
       <<-1, 4651, 10744, 14506, 1269, 10643, 3409, 5620>>,
       <<-1, 11560, 10070, 3752, 6087, 10794, 10234, 753>>,
       <<0, 16133, 13785, 11676, 9662, 5276, 2444, 15660>>,
       <<-1, 6484, 11899, 8014, 5435, 2050, 7983, 9893>>,
       <<-1, 9283, 9343, 12414, 1166, 1834, 11650, 8222>>,
       <<0, 16378, 10625, 9027, 4735, 1517, 9709, 12920>>,
       <<-1, 8538, 6162, 2465, 4460, 15947, 16143, 580>>,
       <<-1, 7164, 12130, 14144, 6513, 15747, 16207, 14691>>,
       <<0, 16258, 8199, 558, 14905, 2717, 2253, 16368>>,
       <<-1, 10766, 13845, 12437, 12611, 1745, 2030, 3536>>,
       <<-1, 5251, 5530, 3841, 13205, 11488, 7278, 12582>>,
       <<0, 15776, 1217, 2727, 8709, 13887, 8193, 12727>>,
       <<-1, 13120, 7825, 3234, 10697, 2239, 6503, 1999>>,
       <<-1, 3585, 16332, 6570, 12410, 13454, 12432, 9123>>,
       <<0, 14942, 1961, 6765, 12338, 6285, 7696, 867>>,
       <<-1, 15546, 13585, 5348, 7521, 10065, 1584, 9150>>,
       <<-1, 2205, 13534, 11865, 12382, 672, 11866, 15000>>,
       <<0, 13775, 3591, 4817, 1194, 6977, 5677, 14876>>,
       <<0, 1607, 13679, 2359, 8481, 864, 16074, 9263>>,
       <<-1, 1141, 9482, 4997, 9482, 3080, 10744, 12475>>,
       <<0, 12301, 6128, 6439, 8932, 3899, 7568, 5118>>,
       <<0, 4017, 233, 8061, 500, 12339, 10753, 6141>>,
       <<-1, 416, 15872, 11010, 15557, 1961, 2688, 2743>>,
       <<0, 10553, 6963, 15389, 3511, 1832, 642, 16284>>,
       <<0, 6336, 11222, 8358, 3209, 14641, 15637, 14166>>,
       <<-1, 48, 2330, 6882, 10276, 6067, 14178, 12233>>,
       <<0, 8570, 5253, 7866, 6557, 4316, 353, 11576>>,
       <<0, 8515, 2609, 10681, 10842, 16250, 9485, 10451>>,
       <<-1, 43, 5200, 11565, 8500, 9243, 13047, 10543>>,
       <<0, 6396, 4081, 12998, 4071, 10368, 16333, 4857>>,
       <<0, 10503, 14673, 9380, 1868, 14564, 13124, 13231>>,
       <<-1, 402, 9860, 15483, 12454, 4149, 1964, 12600>>,
       <<0, 4079, 10714, 14327, 6504, 7800, 13936, 15417>>,
       <<0, 12258, 9505, 6913, 13501, 11947, 6949, 1>>,
       <<-1, 1117, 16217, 9228, 14431, 15701, 2122, 5918>>,
       <<0, 1672, 2530, 7516, 10700, 14635, 14857, 7689>>,
       <<0, 13740, 1874, 11017, 6372, 2627, 6583, 9966>>,
       <<-1, 2173, 8860, 11097, 11277, 14361, 8577, 8232>>,
       <<-1, 15611, 6477, 2498, 1658, 8066, 7687, 766>>,
       <<0, 14915, 7966, 16344, 3036, 254, 381, 2445>>,
       <<-1, 3545, 12035, 9515, 12245, 14677, 16207, 2683>>,
       <<-1, 13183, 13954, 1335, 835, 16366, 9173, 3650>>,
       <<0, 15758, 8284, 2443, 9014, 13659, 8223, 7120>>,
       <<-1, 5203, 16309, 5944, 12883, 11169, 7682, 5747>>,
       <<-1, 10827, 10075, 7271, 6058, 3557, 12058, 14321>>,
       <<0, 16250, 6357, 4686, 5012, 11818, 6663, 296>>,
       <<-1, 7111, 6117, 5406, 12124, 1441, 16034, 11165>>,
       <<-1, 8595, 3075, 1719, 8569, 6398, 12102, 12938>>,
       <<0, 16380, 2836, 11573, 9422, 10671, 11430, 15305>>,
       <<-1, 9225, 6020, 8277, 5257, 10467, 1632, 7359>>,
       <<-1, 6536, 5139, 4188, 7820, 2783, 14516, 10237>>,
       <<0, 16144, 15877, 2893, 15724, 16359, 11346, 349>>,
       <<-1, 11498, 14301, 10261, 7211, 14145, 12435, 13391>>,
       <<-1, 4696, 14246, 3698, 11505, 1173, 10261, 3628>>,
       <<0, 15550, 273, 11434, 1068, 14438, 3521, 13329>>,
       <<-1, 13881, 3777, 14919, 10194, 15584, 5242, 6195>>,
       <<-1, 3117, 13802, 1744, 8213, 10339, 4655, 14894>>,
       <<0, 14608, 9388, 3032, 15954, 6005, 11825, 5901>>,
       <<-1, 16319, 5831, 6565, 12943, 9280, 12341, 11819>> >>,
    << <<-1, 1834, 6829, 6136, 12069, 12496, 3291, 8635>>,
       <<-1, 3004, 15837, 15441, 3951, 2262, 9853, 9834>>,
       <<0, 2246, 15172, 8757, 1947, 1398, 13035, 14887>>,
       <<0, 15445, 3090, 12534, 12974, 7899, 6804, 5528>>,
       <<0, 11955, 10798, 5770, 2132, 8768, 15980, 5201>>,
       <<-1, 11932, 9964, 7698, 117, 7767, 4566, 3888>>,
       <<-1, 335, 1221, 7241, 2844, 6631, 16001, 16093>>,
       <<-1, 6077, 10518, 6118, 11970, 9350, 3338, 11473>>,
       <<0, 6571, 12113, 9141, 39, 16056, 1347, 13340>>,
       <<0, 16349, 6303, 6310, 13276, 11296, 12490, 3174>>,
       <<0, 8462, 4867, 1246, 12050, 12844, 9242, 3608>>,
       <<-1, 7816, 1633, 238, 440, 10230, 83, 5370>>,
       <<-1, 43, 1823, 12866, 11747, 8805, 414, 4497>>,
       <<-1, 9925, 11082, 9920, 3403, 13157, 14482, 7038>>,
       <<0, 10402, 2509, 8403, 7242, 1752, 9750, 8509>>,
       <<0, 16023, 9795, 8220, 11949, 8489, 2323, 6487>>,
       <<0, 4332, 5025, 11638, 447, 913, 13793, 12635>>,
       <<-1, 4344, 2688, 14268, 11594, 7366, 2663, 11452>>,
       <<-1, 980, 8058, 8506, 3509, 507, 11265, 3074>>,
       <<-1, 14259, 9469, 1281, 7837, 5853, 7318, 2435>>,
       <<0, 13450, 17, 12955, 8483, 5179, 1796, 10576>>,
       <<0, 14492, 5527, 12932, 13575, 7993, 3011, 10610>>,
       <<-1, 16260, 6422, 16249, 10928, 14307, 2930, 16296>>,
       <<-1, 1777, 16370, 15946, 1720, 12802, 2169, 3809>>,
       <<-1, 3076, 11402, 8133, 7645, 2383, 1924, 11761>>,
       <<0, 2369, 4950, 12159, 12109, 4098, 5459, 9469>>,
       <<0, 15485, 16220, 6619, 4615, 9024, 16087, 3465>>,
       <<0, 11870, 13136, 2355, 7237, 2846, 12452, 9400>>,
       <<-1, 11813, 12721, 14140, 13096, 5621, 8897, 7637>>,
       <<-1, 310, 10821, 899, 10192, 15434, 1800, 11866>>,
       <<-1, 6174, 389, 10003, 2437, 8186, 4837, 1296>>,
       <<0, 6684, 12797, 2391, 7571, 11992, 411, 8509>>,
       <<0, 16356, 15567, 11281, 15969, 7961, 5586, 4347>>,
       <<0, 8356, 3475, 8569, 8765, 3868, 5108, 6463>>,
       <<-1, 7710, 16123, 3780, 11322, 92, 15871, 9579>>,
       <<-1, 52, 8805, 14742, 5019, 12005, 6303, 12037>>,
       <<-1, 10039, 7533, 9447, 10622, 6235, 11401, 11173>>,
       <<0, 10497, 5836, 11686, 15527, 14059, 8202, 15834>>,
       <<0, 15997, 5869, 6485, 15052, 3691, 6036, 9628>>,
       <<0, 4212, 15975, 11993, 12353, 14582, 13839, 11696>>,
       <<-1, 4260, 11020, 422, 15470, 9717, 1851, 754>>,
       <<-1, 1023, 804, 9485, 3778, 10828, 13810, 5804>>,
       <<-1, 14382, 3323, 13975, 3668, 13585, 14187, 2626>>,
       <<0, 13520, 3330, 8537, 15390, 10786, 4068, 14745>>,
       <<0, 14434, 4369, 14809, 5222, 14133, 307, 515>>,
       <<-1, 16136, 12961, 4195, 13731, 3089, 13806, 3511>>,
       <<-1, 1722, 6765, 10156, 9084, 13586, 10509, 11630>>,
       <<-1, 3149, 2992, 16038, 13746, 16328, 15913, 13932>>,
       <<0, 2491, 8903, 6899, 10741, 9963, 8852, 15212>>,
       <<0, 15525, 14908, 5697, 1435, 4582, 8409, 13969>>,
       <<0, 11785, 4403, 10466, 10997, 1224, 9653, 7579>>,
       <<-1, 11695, 3357, 4713, 8559, 2195, 15859, 339>>,
       <<-1, 287, 2642, 1717, 876, 1557, 16022, 7595>>,
       <<-1, 6270, 16166, 5178, 2947, 148, 3205, 15810>>,
       <<0, 6797, 7246, 12121, 15520, 12151, 16222, 6713>>,
       <<0, 16363, 9578, 1141, 2827, 7484, 678, 499>>,
       <<0, 8249, 10675, 4217, 12820, 1428, 9295, 13607>>,
       <<-1, 7606, 5933, 9825, 14462, 787, 13571, 3805>>,
       <<-1, 62, 14634, 2748, 5702, 13117, 14097, 4138>>,
       <<-1, 10153, 9901, 4016, 2266, 15793, 14115, 13650>>,
       <<0, 10591, 15758, 7285, 14535, 3667, 7611, 9285>>,
       <<0, 15970, 3408, 11641, 9738, 14110, 9751, 4687>>,
       <<0, 4093, 6612, 14415, 5475, 2669, 9101, 2403>> >>,
    << <<-1, 4177, 14272, 15955, 11037, 5081, 14478, 6258>>,
       <<-1, 99, 8710, 16177, 4430, 2782, 6218, 8615>>,
       <<-1, 6864, 10764, 5599, 11333, 6686, 10936, 1894>>,
       <<0, 3584, 8205, 11688, 10460, 16254, 15919, 5079>>,
       <<0, 14301, 8280, 5009, 4228, 10009, 15021, 15027>>,
       <<0, 15495, 7471, 695, 12335, 15848, 9238, 16112>>,
       <<0, 6371, 5366, 5930, 9520, 321, 1918, 11073>>,
       <<-1, 9388, 11042, 2418, 14949, 7941, 2472, 7771>>,
       <<-1, 680, 855, 5938, 10559, 1452, 9038, 8352>>,
       <<-1, 2428, 5563, 7201, 4780, 7108, 14830, 13226>>,
       <<-1, 13469, 6396, 9479, 683, 6574, 5955, 6254>>,
       <<0, 10067, 3520, 9949, 9006, 8872, 14133, 3561>>,
       <<0, 16345, 8276, 6714, 4927, 1546, 12846, 12771>>,
       <<0, 11739, 11264, 14715, 10709, 15188, 14335, 12076>>,
       <<-1, 15700, 11033, 14883, 4219, 1688, 15311, 15281>>,
       <<-1, 3732, 10998, 5640, 15037, 9457, 9640, 11652>>,
       <<-1, 188, 14862, 15527, 15487, 13962, 124, 1048>>,
       <<-1, 7429, 1551, 8416, 166, 12720, 1175, 3166>>,
       <<0, 4248, 2527, 3297, 10109, 10135, 1747, 9560>>,
       <<0, 14622, 7577, 7526, 11592, 2854, 4338, 6837>>,
       <<0, 15259, 16361, 1592, 12295, 3585, 9970, 11871>>,
       <<0, 5736, 3956, 7220, 6609, 13244, 14329, 15672>>,
       <<-1, 8776, 13908, 7360, 15255, 7116, 14343, 3781>>,
       <<-1, 498, 14562, 9954, 1003, 2128, 3868, 9701>>,
       <<-1, 2798, 7709, 1503, 210, 9910, 6899, 12437>>,
       <<-1, 14144, 5795, 13527, 5176, 3087, 10047, 14565>>,
       <<0, 10597, 9298, 7934, 1106, 12451, 7312, 1704>>,
       <<0, 16378, 1590, 15892, 9463, 1311, 2124, 13570>>,
       <<0, 11252, 13378, 6274, 7454, 7110, 9316, 9051>>,
       <<-1, 15018, 8782, 11976, 11319, 4136, 8936, 302>>,
       <<-1, 3309, 7988, 11332, 8155, 1977, 4158, 13284>>,
       <<-1, 306, 7631, 3432, 8776, 1491, 12524, 15439>>,
       <<-1, 8009, 1899, 12076, 1078, 10165, 15716, 7675>>,
       <<0, 4904, 6797, 14557, 5258, 2083, 4923, 5218>>,
       <<0, 14917, 15944, 15333, 1805, 1825, 2099, 15081>>,
       <<0, 14997, 16144, 2149, 15998, 1687, 6150, 8799>>,
       <<0, 5091, 2835, 9444, 1221, 16360, 9870, 10583>>,
       <<-1, 8178, 4292, 13374, 12705, 4730, 8150, 11202>>,
       <<-1, 345, 6047, 16359, 10029, 7768, 6958, 13684>>,
       <<-1, 3192, 3987, 8632, 8259, 14818, 4455, 13940>>,
       <<-1, 14823, 3515, 9246, 14076, 9456, 6974, 2887>>,
       <<0, 11109, 7831, 15497, 7425, 3897, 2515, 8616>>,
       <<0, 16382, 3071, 7140, 13430, 3280, 48, 8365>>,
       <<0, 10746, 5949, 1324, 10320, 14317, 11501, 15852>>,
       <<-1, 14338, 12695, 7820, 4189, 4258, 12585, 6944>>,
       <<-1, 2909, 925, 12655, 1859, 4088, 10457, 10463>>,
       <<-1, 452, 47, 15686, 9036, 1595, 6046, 12898>>,
       <<-1, 8603, 11655, 8589, 2545, 4182, 9952, 5265>>,
       <<0, 5552, 2306, 9170, 2002, 1276, 15663, 9569>>,
       <<0, 15187, 8573, 2845, 315, 11034, 6116, 2147>>,
       <<0, 14709, 14290, 10333, 8603, 7154, 16096, 4514>>,
       <<0, 4437, 4011, 14297, 8673, 2809, 14463, 10353>>,
       <<-1, 7593, 15646, 1269, 6940, 6739, 6423, 4362>>,
       <<-1, 219, 12456, 10945, 6676, 5816, 12184, 10358>>,
       <<-1, 3608, 15939, 8954, 2290, 4327, 7105, 14390>>,
       <<-1, 15504, 12968, 3384, 11044, 4201, 15546, 4111>>,
       <<0, 11602, 909, 7690, 3854, 4101, 292, 2955>>,
       <<0, 16357, 12601, 3006, 9788, 22, 8859, 1986>>,
       <<0, 10221, 3416, 15142, 4452, 16193, 11886, 15588>>,
       <<-1, 13662, 9385, 6660, 2501, 11613, 16142, 12568>>,
       <<-1, 2532, 1226, 10216, 8654, 11205, 11200, 15357>>,
       <<-1, 625, 4347, 10744, 11542, 10186, 5735, 42>>,
       <<-1, 9211, 13865, 13927, 13593, 11947, 14800, 3560>> >>,
    << <<0, 6190, 3353, 5606, 16173, 11641, 7962, 10828>>,
       <<-1, 4921, 3910, 12617, 16373, 1140, 14807, 14245>>,
       <<0, 15036, 914, 4206, 13134, 12268, 5314, 5734>>,
       <<-1, 3, 10223, 9771, 1342, 935, 10648, 11321>>,
       <<0, 15296, 7163, 14854, 13977, 8279, 110, 4481>>,
       <<-1, 4439, 1232, 15355, 4156, 8316, 15386, 2499>>,
       <<0, 6822, 11030, 10365, 11087, 10344, 15058, 7529>>,
       <<-1, 15694, 16132, 8745, 2745, 11627, 12208, 8815>>,
       <<-1, 10837, 3546, 7447, 9084, 1653, 5709, 4277>>,
       <<0, 10960, 5183, 14500, 8154, 11213, 5207, 6034>>,
       <<-1, 1634, 15228, 6020, 8128, 13949, 13140, 7449>>,
       <<0, 16351, 6449, 3626, 15788, 8014, 10606, 9157>>,
       <<-1, 854, 4027, 9163, 14099, 13058, 1144, 15922>>,
       <<0, 12405, 15624, 851, 1751, 13822, 1222, 1005>>,
       <<-1, 8940, 15233, 1284, 15444, 15592, 5980, 9422>>,
       <<0, 1376, 13297, 3528, 4601, 8308, 9405, 16200>>,
       <<0, 4893, 8983, 3907, 8621, 14537, 13607, 9939>>,
       <<-1, 5945, 8535, 11547, 4281, 8353, 8073, 10746>>,
       <<0, 14435, 16207, 6355, 15582, 11342, 8914, 7774>>,
       <<-1, 90, 8516, 16046, 8703, 5625, 12598, 663>>,
       <<0, 15735, 9728, 4666, 989, 9530, 14236, 13104>>,
       <<-1, 3538, 15856, 7683, 13374, 10600, 1977, 4322>>,
       <<0, 8050, 4881, 10724, 6737, 3700, 14012, 15919>>,
       <<-1, 14321, 13569, 2123, 4368, 2401, 2300, 15561>>,
       <<-1, 12152, 5657, 1360, 15862, 1819, 4455, 141>>,
       <<0, 9898, 2825, 14604, 11835, 10459, 5442, 6445>>,
       <<-1, 2286, 10390, 10329, 5687, 14564, 12770, 431>>,
       <<0, 16206, 12092, 10521, 15349, 1943, 5997, 2172>>,
       <<-1, 470, 6687, 9837, 4575, 1245, 9563, 14308>>,
       <<0, 13261, 6285, 2389, 3801, 12300, 9369, 5210>>,
       <<-1, 7740, 11763, 15747, 14379, 5736, 8321, 5150>>,
       <<0, 2743, 14472, 11015, 10696, 14683, 4472, 13477>>,
       <<0, 3562, 4488, 1157, 1867, 14093, 7776, 6619>>,
       <<-1, 7043, 10604, 8137, 14511, 7499, 7280, 13138>>,
       <<0, 13733, 13097, 14063, 14415, 12415, 14310, 3771>>,
       <<-1, 292, 11127, 5998, 9767, 9156, 12137, 2333>>,
       <<0, 16063, 7100, 13728, 2411, 5499, 6398, 3395>>,
       <<-1, 2729, 11940, 10238, 13566, 10050, 5340, 10507>>,
       <<0, 9220, 15944, 3085, 3863, 13972, 3266, 11716>>,
       <<-1, 12963, 4259, 6018, 4034, 9910, 10847, 1591>>,
       <<-1, 13497, 6712, 12538, 11909, 1151, 8052, 14936>>,
       <<0, 8766, 111, 10591, 14076, 2204, 439, 13046>>,
       <<-1, 3038, 1091, 13080, 6328, 9164, 1924, 9795>>,
       <<0, 15947, 7088, 13122, 12438, 7139, 15599, 14515>>,
       <<-1, 199, 2402, 2055, 1939, 7693, 15022, 714>>,
       <<0, 14022, 16380, 14505, 5477, 15541, 14661, 6526>>,
       <<-1, 6601, 10660, 7562, 10618, 2935, 1767, 7042>>,
       <<0, 4091, 8917, 8177, 295, 8142, 7510, 2164>>,
       <<0, 2205, 13095, 10754, 7872, 7794, 9684, 7418>>,
       <<-1, 8207, 13912, 1453, 6590, 4016, 15844, 8422>>,
       <<0, 12934, 7436, 2702, 11271, 610, 7261, 16383>>,
       <<-1, 608, 11007, 11688, 1362, 4914, 11165, 1079>>,
       <<0, 16277, 10435, 11335, 4795, 9878, 6303, 16164>>,
       <<-1, 2017, 1359, 5199, 10031, 12349, 15757, 13352>>,
       <<0, 10326, 6836, 7803, 2794, 2087, 9804, 15613>>,
       <<-1, 11628, 14594, 8651, 959, 13317, 2279, 3278>>,
       <<-1, 14862, 14655, 5919, 4949, 13541, 3292, 3337>>,
       <<0, 7571, 13575, 8261, 4711, 13172, 10258, 10509>>,
       <<-1, 3883, 14925, 15752, 5029, 15360, 15965, 13852>>,
       <<0, 15575, 5108, 3141, 7315, 8719, 13323, 9590>>,
       <<-1, 42, 6227, 6435, 3087, 15238, 9849, 11038>>,
       <<0, 14685, 6789, 407, 4523, 4614, 1658, 11800>>,
       <<-1, 5531, 12872, 14185, 4256, 1032, 13708, 15515>> >>,
    << <<0, 5410, 4272, 10004, 10122, 7653, 179, 419>>,
       <<0, 10213, 8982, 7112, 5611, 8782, 387, 6955>>,
       <<0, 13870, 16137, 16263, 15074, 2757, 7056, 10325>>,
       <<0, 15972, 4026, 11621, 546, 15898, 14564, 1792>>,
       <<0, 16281, 9693, 8846, 13187, 14682, 7522, 13405>>,
       <<0, 14764, 5198, 15494, 2602, 3026, 943, 2258>>,
       <<0, 11590, 10563, 281, 12047, 13898, 6360, 13558>>,
       <<0, 7116, 10254, 15718, 297, 8542, 2255, 11931>>,
       <<0, 1844, 3242, 7391, 9304, 10145, 1208, 8723>>,
       <<-1, 12748, 14264, 9504, 8846, 5380, 261, 3492>>,
       <<-1, 7677, 5995, 14420, 8761, 9893, 13075, 104>>,
       <<-1, 3582, 10688, 6485, 8032, 1809, 13242, 7093>>,
       <<-1, 924, 1849, 5920, 3022, 13456, 9929, 6185>>,
       <<-1, 0, 117, 104, 14805, 5398, 4980, 8726>>,
       <<-1, 914, 162, 11446, 3349, 15420, 420, 16101>>,
       <<-1, 3563, 9501, 6375, 12135, 8385, 6397, 12717>>,
       <<-1, 7651, 7597, 12715, 6604, 3422, 7491, 3804>>,
       <<-1, 12719, 730, 8282, 11635, 7811, 15029, 11758>>,
       <<0, 1813, 13011, 15641, 12481, 4716, 3880, 7>>,
       <<0, 7089, 909, 6495, 901, 12896, 916, 13377>>,
       <<0, 11569, 11, 13297, 10972, 4287, 5818, 15439>>,
       <<0, 14751, 458, 2056, 16214, 11140, 10854, 11851>>,
       <<0, 16278, 2422, 6483, 8184, 1596, 3833, 5771>>,
       <<0, 15979, 555, 5135, 2464, 5046, 413, 410>>,
       <<0, 13887, 3989, 546, 5793, 10612, 9310, 7441>>,
       <<0, 10237, 7423, 588, 9043, 2804, 16154, 3269>>,
       <<0, 5439, 2131, 1598, 12503, 6468, 6563, 2435>>,
       <<0, 30, 9747, 7479, 2382, 9092, 7836, 8044>>,
       <<-1, 11002, 10278, 15981, 10491, 5836, 4924, 8101>>,
       <<-1, 6194, 6425, 11278, 1692, 2439, 1571, 7484>>,
       <<-1, 2529, 5273, 8608, 2227, 1967, 7314, 12248>>,
       <<-1, 418, 9798, 6906, 78, 16369, 10032, 14927>>,
       <<-1, 99, 349, 8454, 5456, 9334, 2564, 15106>>,
       <<-1, 1606, 7287, 12278, 15320, 13303, 13581, 11408>>,
       <<-1, 4771, 12315, 15960, 16215, 1545, 14829, 5401>>,
       <<-1, 9239, 13574, 1063, 15610, 978, 15217, 6259>>,
       <<-1, 14509, 6632, 6801, 15594, 15208, 12444, 2474>>,
       <<0, 3605, 4761, 10863, 1497, 5066, 761, 1377>>,
       <<0, 8680, 11492, 9636, 11016, 11952, 4503, 10314>>,
       <<0, 12782, 3777, 3778, 4444, 13597, 6443, 12514>>,
       <<0, 15449, 11964, 11818, 12247, 9592, 1256, 6645>>,
       <<0, 16383, 15330, 15449, 14653, 16225, 11109, 14223>>,
       <<0, 15480, 640, 2167, 13353, 47, 773, 1873>>,
       <<0, 12839, 7337, 2638, 12033, 15537, 11095, 9673>>,
       <<0, 8758, 6685, 6890, 4268, 2829, 15247, 9922>>,
       <<0, 3694, 12594, 2993, 14288, 14061, 5352, 14399>>,
       <<-1, 14600, 10090, 2743, 15402, 2991, 7822, 61>>,
       <<-1, 9322, 8841, 2925, 8744, 10254, 775, 15206>>,
       <<-1, 4836, 11200, 5805, 4973, 8387, 714, 12520>>,
       <<-1, 1646, 5125, 7382, 15183, 4556, 8999, 4032>>,
       <<-1, 109, 5778, 12320, 11158, 5403, 13975, 2962>>,
       <<-1, 398, 3828, 16333, 11190, 9124, 6569, 3135>>,
       <<-1, 2480, 8953, 5443, 9961, 128, 9033, 12537>>,
       <<-1, 6122, 11105, 4073, 9958, 4429, 6383, 15802>>,
       <<-1, 10916, 321, 2686, 5487, 13354, 6337, 14345>>,
       <<-1, 16322, 13274, 13680, 2156, 1124, 3959, 6958>>,
       <<0, 5352, 7629, 16216, 12757, 11802, 3517, 10808>>,
       <<0, 10165, 10352, 594, 11226, 3883, 3171, 3007>>,
       <<0, 13838, 5291, 6730, 3837, 6232, 6613, 9959>>,
       <<0, 15958, 8232, 5112, 3269, 7971, 14779, 9129>>,
       <<0, 16288, 5061, 561, 10839, 15226, 7460, 8558>>,
       <<0, 14790, 12149, 4650, 6286, 15957, 667, 9436>>,
       <<0, 11633, 13293, 9883, 7277, 3584, 4132, 11459>> >>
  >>

CosTab ==
  <<
    << <<0, 16383, 16383, 16383, 16383, 16383, 14336, 0>>,
       <<0, 16383, 16383, 16383, 16383, 16383, 8192, 0>>,
       <<0, 16383, 16383, 16383, 16383, 16382, 14336, 0>>,
       <<0, 16383, 16383, 16383, 16383, 16382, 0, 0>>,
       <<0, 16383, 16383, 16383, 16383, 16380, 14336, 0>>,
       <<0, 16383, 16383, 16383, 16383, 16379, 8192, 0>>,
       <<0, 16383, 16383, 16383, 16383, 16377, 14336, 0>>,
       <<0, 16383, 16383, 16383, 16383, 16376, 0, 0>>,
       <<0, 16383, 16383, 16383, 16383, 16373, 14336, 0>>,
       <<0, 16383, 16383, 16383, 16383, 16371, 8192, 0>>,
       <<0, 16383, 16383, 16383, 16383, 16368, 14336, 0>>,
       <<0, 16383, 16383, 16383, 16383, 16366, 0, 0>>,
       <<0, 16383, 16383, 16383, 16383, 16362, 14336, 0>>,
       <<0, 16383, 16383, 16383, 16383, 16359, 8192, 0>>,
       <<0, 16383, 16383, 16383, 16383, 16355, 14336, 0>>,
       <<0, 16383, 16383, 16383, 16383, 16352, 0, 0>>,
       <<0, 16383, 16383, 16383, 16383, 16347, 14336, 0>>,
       <<0, 16383, 16383, 16383, 16383, 16343, 8192, 0>>,
       <<0, 16383, 16383, 16383, 16383, 16338, 14336, 0>>,
       <<0, 16383, 16383, 16383, 16383, 16334, 0, 0>>,
       <<0, 16383, 16383, 16383, 16383, 16328, 14336, 0>>,
       <<0, 16383, 16383, 16383, 16383, 16323, 8192, 0>>,
       <<0, 16383, 16383, 16383, 16383, 16317, 14336, 0>>,
       <<0, 16383, 16383, 16383, 16383, 16312, 0, 0>>,
       <<0, 16383, 16383, 16383, 16383, 16305, 14336, 0>>,
       <<0, 16383, 16383, 16383, 16383, 16299, 8192, 0>>,
       <<0, 16383, 16383, 16383, 16383, 16292, 14336, 0>>,
       <<0, 16383, 16383, 16383, 16383, 16286, 0, 0>>,
       <<0, 16383, 16383, 16383, 16383, 16278, 14336, 0>>,
       <<0, 16383, 16383, 16383, 16383, 16271, 8192, 0>>,
       <<0, 16383, 16383, 16383, 16383, 16263, 14336, 0>>,
       <<0, 16383, 16383, 16383, 16383, 16256, 0, 0>>,
       <<0, 16383, 16383, 16383, 16383, 16247, 14336, 0>>,
       <<0, 16383, 16383, 16383, 16383, 16239, 8192, 0>>,
       <<0, 16383, 16383, 16383, 16383, 16230, 14336, 0>>,
       <<0, 16383, 16383, 16383, 16383, 16222, 0, 0>>,
       <<0, 16383, 16383, 16383, 16383, 16212, 14336, 0>>,
       <<0, 16383, 16383, 16383, 16383, 16203, 8192, 0>>,
       <<0, 16383, 16383, 16383, 16383, 16193, 14336, 0>>,
       <<0, 16383, 16383, 16383, 16383, 16184, 0, 0>>,
       <<0, 16383, 16383, 16383, 16383, 16173, 14336, 0>>,
       <<0, 16383, 16383, 16383, 16383, 16163, 8192, 0>>,
       <<0, 16383, 16383, 16383, 16383, 16152, 14336, 0>>,
       <<0, 16383, 16383, 16383, 16383, 16142, 0, 0>>,
       <<0, 16383, 16383, 16383, 16383, 16130, 14336, 0>>,
       <<0, 16383, 16383, 16383, 16383, 16119, 8192, 0>>,
       <<0, 16383, 16383, 16383, 16383, 16107, 14336, 0>>,
       <<0, 16383, 16383, 16383, 16383, 16096, 0, 0>>,
       <<0, 16383, 16383, 16383, 16383, 16083, 14336, 0>>,
       <<0, 16383, 16383, 16383, 16383, 16071, 8192, 0>>,
       <<0, 16383, 16383, 16383, 16383, 16058, 14336, 0>>,
       <<0, 16383, 16383, 16383, 16383, 16046, 0, 0>>,
       <<0, 16383, 16383, 16383, 16383, 16032, 14336, 0>>,
       <<0, 16383, 16383, 16383, 16383, 16019, 8192, 0>>,
       <<0, 16383, 16383, 16383, 16383, 16005, 14336, 0>>,
       <<0, 16383, 16383, 16383, 16383, 15992, 0, 0>>,
       <<0, 16383, 16383, 16383, 16383, 15977, 14336, 0>>,
       <<0, 16383, 16383, 16383, 16383, 15963, 8192, 0>>,
       <<0, 16383, 16383, 16383, 16383, 15948, 14336, 0>>,
       <<0, 16383, 16383, 16383, 16383, 15934, 0, 0>>,
       <<0, 16383, 16383, 16383, 16383, 15918, 14336, 0>>,
       <<0, 16383, 16383, 16383, 16383, 15903, 8192, 0>>,
       <<0, 16383, 16383, 16383, 16383, 15887, 14336, 0>> >>,
    << <<0, 16383, 16383, 16383, 16383, 15872, 0, 0>>,
       <<0, 16383, 16383, 16383, 16383, 14336, 0, 0>>,
       <<0, 16383, 16383, 16383, 16383, 11776, 0, 0>>,
       <<0, 16383, 16383, 16383, 16383, 8192, 0, 0>>,
       <<0, 16383, 16383, 16383, 16383, 3584, 0, 0>>,
       <<0, 16383, 16383, 16383, 16382, 14336, 0, 0>>,
       <<0, 16383, 16383, 16383, 16382, 7680, 0, 0>>,
       <<0, 16383, 16383, 16383, 16382, 0, 0, 0>>,
       <<0, 16383, 16383, 16383, 16381, 7680, 0, 0>>,
       <<0, 16383, 16383, 16383, 16380, 14336, 0, 0>>,
       <<0, 16383, 16383, 16383, 16380, 3584, 0, 0>>,
       <<0, 16383, 16383, 16383, 16379, 8192, 0, 0>>,
       <<0, 16383, 16383, 16383, 16378, 11776, 0, 0>>,
       <<0, 16383, 16383, 16383, 16377, 14336, 0, 0>>,
       <<0, 16383, 16383, 16383, 16376, 15872, 0, 0>>,
       <<0, 16383, 16383, 16383, 16376, 0, 0, 0>>,
       <<0, 16383, 16383, 16383, 16374, 15872, 0, 0>>,
       <<0, 16383, 16383, 16383, 16373, 14336, 0, 0>>,
       <<0, 16383, 16383, 16383, 16372, 11776, 0, 0>>,
       <<0, 16383, 16383, 16383, 16371, 8192, 0, 0>>,
       <<0, 16383, 16383, 16383, 16370, 3584, 0, 0>>,
       <<0, 16383, 16383, 16383, 16368, 14336, 0, 0>>,
       <<0, 16383, 16383, 16383, 16367, 7680, 0, 0>>,
       <<0, 16383, 16383, 16383, 16366, 0, 0, 0>>,
       <<0, 16383, 16383, 16383, 16364, 7680, 0, 0>>,
       <<0, 16383, 16383, 16383, 16362, 14336, 0, 0>>,
       <<0, 16383, 16383, 16383, 16361, 3584, 0, 0>>,
       <<0, 16383, 16383, 16383, 16359, 8192, 0, 0>>,
       <<0, 16383, 16383, 16383, 16357, 11776, 0, 0>>,
       <<0, 16383, 16383, 16383, 16355, 14336, 0, 0>>,
       <<0, 16383, 16383, 16383, 16353, 15872, 0, 0>>,
       <<0, 16383, 16383, 16383, 16352, 0, 0, 0>>,
       <<0, 16383, 16383, 16383, 16349, 15872, 0, 0>>,
       <<0, 16383, 16383, 16383, 16347, 14336, 0, 0>>,
       <<0, 16383, 16383, 16383, 16345, 11776, 0, 0>>,
       <<0, 16383, 16383, 16383, 16343, 8192, 0, 0>>,
       <<0, 16383, 16383, 16383, 16341, 3584, 0, 0>>,
       <<0, 16383, 16383, 16383, 16338, 14336, 0, 0>>,
       <<0, 16383, 16383, 16383, 16336, 7680, 0, 0>>,
       <<0, 16383, 16383, 16383, 16334, 0, 0, 0>>,
       <<0, 16383, 16383, 16383, 16331, 7680, 0, 0>>,
       <<0, 16383, 16383, 16383, 16328, 14336, 0, 0>>,
       <<0, 16383, 16383, 16383, 16326, 3584, 0, 0>>,
       <<0, 16383, 16383, 16383, 16323, 8192, 0, 0>>,
       <<0, 16383, 16383, 16383, 16320, 11776, 0, 0>>,
       <<0, 16383, 16383, 16383, 16317, 14336, 0, 0>>,
       <<0, 16383, 16383, 16383, 16314, 15872, 0, 0>>,
       <<0, 16383, 16383, 16383, 16312, 0, 0, 0>>,
       <<0, 16383, 16383, 16383, 16308, 15872, 0, 0>>,
       <<0, 16383, 16383, 16383, 16305, 14336, 0, 0>>,
       <<0, 16383, 16383, 16383, 16302, 11776, 0, 0>>,
       <<0, 16383, 16383, 16383, 16299, 8192, 0, 0>>,
       <<0, 16383, 16383, 16383, 16296, 3584, 0, 0>>,
       <<0, 16383, 16383, 16383, 16292, 14336, 0, 0>>,
       <<0, 16383, 16383, 16383, 16289, 7680, 0, 0>>,
       <<0, 16383, 16383, 16383, 16286, 0, 0, 0>>,
       <<0, 16383, 16383, 16383, 16282, 7680, 0, 0>>,
       <<0, 16383, 16383, 16383, 16278, 14336, 0, 0>>,
       <<0, 16383, 16383, 16383, 16275, 3584, 0, 0>>,
       <<0, 16383, 16383, 16383, 16271, 8192, 0, 0>>,
       <<0, 16383, 16383, 16383, 16267, 11776, 0, 0>>,
       <<0, 16383, 16383, 16383, 16263, 14336, 0, 0>>,
       <<0, 16383, 16383, 16383, 16259, 15872, 0, 0>> >>,
    << <<0, 16383, 16383, 16383, 16256, 0, 0, 0>>,
       <<0, 16383, 16383, 16383, 15872, 0, 0, 2>>,
       <<0, 16383, 16383, 16383, 15232, 0, 0, 13>>,
       <<0, 16383, 16383, 16383, 14336, 0, 0, 42>>,
       <<0, 16383, 16383, 16383, 13184, 0, 0, 104>>,
       <<0, 16383, 16383, 16383, 11776, 0, 0, 215>>,
       <<0, 16383, 16383, 16383, 10112, 0, 0, 400>>,
       <<0, 16383, 16383, 16383, 8192, 0, 0, 682>>,
       <<0, 16383, 16383, 16383, 6016, 0, 0, 1093>>,
       <<0, 16383, 16383, 16383, 3584, 0, 0, 1666>>,
       <<0, 16383, 16383, 16383, 896, 0, 0, 2440>>,
       <<0, 16383, 16383, 16382, 14336, 0, 0, 3455>>,
       <<0, 16383, 16383, 16382, 11136, 0, 0, 4760>>,
       <<0, 16383, 16383, 16382, 7680, 0, 0, 6402>>,
       <<0, 16383, 16383, 16382, 3968, 0, 0, 8437>>,
       <<0, 16383, 16383, 16382, 0, 0, 0, 10922>>,
       <<0, 16383, 16383, 16381, 12160, 0, 0, 13920>>,
       <<0, 16383, 16383, 16381, 7680, 0, 1, 1111>>,
       <<0, 16383, 16383, 16381, 2944, 0, 1, 5336>>,
       <<0, 16383, 16383, 16380, 14336, 0, 1, 10282>>,
       <<0, 16383, 16383, 16380, 9088, 0, 1, 16029>>,
       <<0, 16383, 16383, 16380, 3584, 0, 2, 6274>>,
       <<0, 16383, 16383, 16379, 14208, 0, 2, 13872>>,
       <<0, 16383, 16383, 16379, 8192, 0, 3, 6143>>,
       <<0, 16383, 16383, 16379, 1920, 0, 3, 15952>>,
       <<0, 16383, 16383, 16378, 11776, 0, 4, 10626>>,
       <<0, 16383, 16383, 16378, 4992, 0, 5, 6653>>,
       <<0, 16383, 16383, 16377, 14336, 0, 6, 4138>>,
       <<0, 16383, 16383, 16377, 7040, 0, 7, 3192>>,
       <<0, 16383, 16383, 16376, 15872, 0, 8, 3927>>,
       <<0, 16383, 16383, 16376, 8064, 0, 9, 6464>>,
       <<0, 16383, 16383, 16376, 0, 0, 10, 10922>>,
       <<0, 16383, 16383, 16375, 8064, 0, 12, 1045>>,
       <<0, 16383, 16383, 16374, 15872, 0, 13, 9730>>,
       <<0, 16383, 16383, 16374, 7040, 0, 15, 4344>>,
       <<0, 16383, 16383, 16373, 14336, 0, 17, 1407>>,
       <<0, 16383, 16383, 16373, 4992, 0, 19, 1064>>,
       <<0, 16383, 16383, 16372, 11776, 0, 21, 3458>>,
       <<0, 16383, 16383, 16372, 1920, 0, 23, 8741>>,
       <<0, 16383, 16383, 16371, 8192, 0, 26, 682>>,
       <<0, 16383, 16383, 16370, 14208, 0, 28, 12208>>,
       <<0, 16383, 16383, 16370, 3584, 0, 31, 10711>>,
       <<0, 16383, 16383, 16369, 9088, 0, 34, 12744>>,
       <<0, 16383, 16383, 16368, 14336, 0, 38, 2090>>,
       <<0, 16383, 16383, 16368, 2944, 0, 41, 11693>>,
       <<0, 16383, 16383, 16367, 7680, 0, 45, 8962>>,
       <<0, 16383, 16383, 16366, 12160, 0, 49, 10464>>,
       <<0, 16383, 16383, 16366, 0, 0, 53, 16383>>,
       <<0, 16383, 16383, 16365, 3968, 0, 58, 10528>>,
       <<0, 16383, 16383, 16364, 7680, 0, 63, 9474>>,
       <<0, 16383, 16383, 16363, 11136, 0, 68, 13421>>,
       <<0, 16383, 16383, 16362, 14336, 0, 74, 6186>>,
       <<0, 16383, 16383, 16362, 896, 0, 80, 4360>>,
       <<0, 16383, 16383, 16361, 3584, 0, 86, 8151>>,
       <<0, 16383, 16383, 16360, 6016, 0, 93, 1392>>,
       <<0, 16383, 16383, 16359, 8192, 0, 100, 682>>,
       <<0, 16383, 16383, 16358, 10112, 0, 107, 6245>>,
       <<0, 16383, 16383, 16357, 11776, 0, 115, 1922>>,
       <<0, 16383, 16383, 16356, 13184, 0, 123, 4328>>,
       <<0, 16383, 16383, 16355, 14336, 0, 131, 13695>>,
       <<0, 16383, 16383, 16354, 15232, 0, 140, 13880>>,
       <<0, 16383, 16383, 16353, 15872, 0, 150, 5122>>,
       <<0, 16383, 16383, 16352, 16256, 0, 160, 4053>> >>,
    << <<0, 16383, 16383, 16352, 0, 0, 170, 10922>>,
       <<0, 16383, 16383, 16256, 0, 0, 2730, 10922>>,
       <<0, 16383, 16383, 16096, 0, 0, 13823, 16383>>,
       <<0, 16383, 16383, 15872, 0, 2, 10922, 10922>>,
       <<0, 16383, 16383, 15584, 0, 6, 8362, 10922>>,
       <<0, 16383, 16383, 15232, 0, 13, 8191, 16383>>,
       <<0, 16383, 16383, 14816, 0, 25, 170, 10922>>,
       <<0, 16383, 16383, 14336, 0, 42, 10922, 10922>>,
       <<0, 16383, 16383, 13792, 0, 68, 5631, 16383>>,
       <<0, 16383, 16383, 13184, 0, 104, 2730, 10921>>,
       <<0, 16383, 16383, 12512, 0, 152, 8362, 10920>>,
       <<0, 16383, 16383, 11776, 0, 215, 16383, 16379>>,
       <<0, 16383, 16383, 10976, 0, 297, 8362, 10916>>,
       <<0, 16383, 16383, 10112, 0, 400, 2730, 10912>>,
       <<0, 16383, 16383, 9184, 0, 527, 5631, 16368>>,
       <<0, 16383, 16383, 8192, 0, 682, 10922, 10899>>,
       <<0, 16383, 16383, 7136, 0, 870, 170, 10889>>,
       <<0, 16383, 16383, 6016, 0, 1093, 8191, 16337>>,
       <<0, 16383, 16383, 4832, 0, 1357, 8362, 10858>>,
       <<0, 16383, 16383, 3584, 0, 1666, 10922, 10835>>,
       <<0, 16383, 16383, 2272, 0, 2025, 13823, 16267>>,
       <<0, 16383, 16383, 896, 0, 2440, 2730, 10768>>,
       <<0, 16383, 16382, 15840, 0, 2915, 170, 10721>>,
       <<0, 16383, 16382, 14336, 0, 3455, 16383, 16124>>,
       <<0, 16383, 16382, 12768, 0, 4069, 170, 10591>>,
       <<0, 16383, 16382, 11136, 0, 4760, 2730, 10503>>,
       <<0, 16383, 16382, 9440, 0, 5535, 13823, 15858>>,
       <<0, 16383, 16382, 7680, 0, 6402, 10922, 10269>>,
       <<0, 16383, 16382, 5856, 0, 7367, 8362, 10115>>,
       <<0, 16383, 16382, 3968, 0, 8437, 8191, 15395>>,
       <<0, 16383, 16382, 2016, 0, 9620, 170, 9718>>,
       <<0, 16383, 16382, 0, 0, 10922, 10922, 9466>>,
       <<0, 16383, 16381, 14304, 0, 12353, 5631, 14632>>,
       <<0, 16383, 16381, 12160, 0, 13920, 2730, 8827>>,
       <<0, 16383, 16381, 9952, 0, 15631, 8362, 8429>>,
       <<0, 16383, 16381, 7680, 1, 1111, 16383, 13431>>,
       <<0, 16383, 16381, 5344, 1, 3138, 8362, 7442>>,
       <<0, 16383, 16381, 2944, 1, 5336, 2730, 6838>>,
       <<0, 16383, 16381, 480, 1, 7714, 5631, 11611>>,
       <<0, 16383, 16380, 14336, 1, 10282, 10922, 5367>>,
       <<0, 16383, 16380, 11744, 1, 13051, 170, 4479>>,
       <<0, 16383, 16380, 9088, 1, 16029, 8191, 8939>>,
       <<0, 16383, 16380, 6368, 2, 2844, 8362, 2348>>,
       <<0, 16383, 16380, 3584, 2, 6274, 10922, 1080>>,
       <<0, 16383, 16380, 736, 2, 9946, 13823, 5121>>,
       <<0, 16383, 16379, 14208, 2, 13872, 2729, 14456>>,
       <<0, 16383, 16379, 11232, 3, 1678, 169, 12686>>,
       <<0, 16383, 16379, 8192, 3, 6143, 16382, 16179>>,
       <<0, 16383, 16379, 5088, 3, 10898, 169, 8533>>,
       <<0, 16383, 16379, 1920, 3, 15952, 2729, 6113>>,
       <<0, 16383, 16378, 15072, 4, 4934, 13822, 8901>>,
       <<0, 16383, 16378, 11776, 4, 10626, 10921, 491>>,
       <<0, 16383, 16378, 8416, 5, 272, 8360, 13628>>,
       <<0, 16383, 16378, 4992, 5, 6653, 8189, 15521>>,
       <<0, 16383, 16378, 1504, 5, 13399, 168, 6146>>,
       <<0, 16383, 16377, 14336, 6, 4138, 10920, 1859>>,
       <<0, 16383, 16377, 10720, 6, 11654, 5629, 2634>>,
       <<0, 16383, 16377, 7040, 7, 3192, 2727, 8440>>,
       <<0, 16383, 16377, 3296, 7, 11534, 8359, 2863>>,
       <<0, 16383, 16376, 15872, 8, 3927, 16380, 2254>>,
       <<0, 16383, 16376, 12000, 8, 13155, 8358, 6579>>,
       <<0, 16383, 16376, 8064, 9, 6464, 2725, 15802>>,
       <<0, 16383, 16376, 4064, 10, 253, 5626, 13501>> >>,
    << <<0, 16383, 16376, 0, 10, 10922, 10916, 16019>>,
       <<0, 16383, 16352, 0, 170, 10922, 10558, 9466>>,
       <<0, 16383, 16312, 0, 863, 16383, 12236, 13107>>,
       <<0, 16383, 16256, 0, 2730, 10921, 4004, 16026>>,
       <<0, 16383, 16184, 0, 6666, 10917, 3953, 12781>>,
       <<0, 16383, 16096, 0, 13823, 16367, 13107, 3443>>,
       <<0, 16383, 15992, 1, 9226, 10881, 13374, 10038>>,
       <<0, 16383, 15872, 2, 10922, 10831, 10558, 11130>>,
       <<0, 16383, 15736, 4, 4447, 16199, 7731, 7547>>,
       <<0, 16383, 15584, 6, 8362, 10575, 7282, 6279>>,
       <<0, 16383, 15416, 9, 8714, 10307, 8870, 4517>>,
       <<0, 16383, 15232, 13, 8191, 15347, 3279, 6612>>,
       <<0, 16383, 15032, 18, 9738, 9246, 11331, 8471>>,
       <<0, 16383, 14816, 25, 170, 8308, 4013, 14971>>,
       <<0, 16383, 14584, 32, 15711, 12428, 15119, 8494>>,
       <<0, 16383, 14336, 42, 10922, 5097, 4030, 16123>>,
       <<0, 16383, 14072, 54, 6154, 2541, 9320, 13377>>,
       <<0, 16383, 13792, 68, 5631, 4574, 3343, 8629>>,
       <<0, 16383, 13496, 84, 13833, 10971, 4875, 13344>>,
       <<0, 16383, 13184, 104, 2729, 5084, 7436, 12904>>,
       <<0, 16383, 12856, 126, 10078, 2988, 1816, 3607>>,
       <<0, 16383, 12512, 152, 8360, 4322, 10890, 14011>>,
       <<0, 16383, 12152, 182, 3079, 8673, 5656, 12394>>,
       <<0, 16383, 11776, 215, 16379, 15564, 13773, 11698>>,
       <<0, 16383, 11384, 254, 5125, 8071, 11021, 11608>>,
       <<0, 16383, 10976, 297, 8356, 1964, 5269, 7221>>,
       <<0, 16383, 10552, 345, 16215, 12935, 1658, 15256>>,
       <<0, 16383, 10112, 400, 2720, 7439, 12846, 3211>>,
       <<0, 16383, 9656, 460, 7678, 994, 15994, 92>>,
       <<0, 16383, 9184, 527, 5616, 9019, 3972, 11998>>,
       <<0, 16383, 8696, 601, 4087, 14057, 16081, 4812>>,
       <<0, 16383, 8192, 682, 10899, 14928, 832, 3254>>,
       <<0, 16383, 7672, 772, 1348, 10326, 2320, 11527>>,
       <<0, 16383, 7136, 870, 137, 15204, 14818, 1402>>,
       <<0, 16383, 6584, 976, 15843, 11612, 13493, 674>>,
       <<0, 16383, 6016, 1093, 8145, 14221, 13805, 3563>>,
       <<0, 16383, 5432, 1220, 2516, 4782, 12114, 14501>>,
       <<0, 16383, 4832, 1357, 8298, 14036, 4116, 12454>>,
       <<0, 16383, 4216, 1506, 2325, 7015, 15561, 16137>>,
       <<0, 16383, 3584, 1666, 10835, 14110, 14196, 4512>>,
       <<0, 16383, 2936, 1839, 11173, 16367, 14210, 4018>>,
       <<0, 16383, 2272, 2025, 13707, 11017, 12753, 15004>>,
       <<0, 16383, 1592, 2225, 12676, 11465, 4275, 6892>>,
       <<0, 16383, 896, 2440, 2576, 14510, 7147, 15019>>,
       <<0, 16383, 184, 2669, 10928, 338, 4280, 11620>>,
       <<0, 16382, 15840, 2914, 16353, 14427, 10706, 9892>>,
       <<0, 16382, 15096, 3176, 14118, 3700, 6001, 8094>>,
       <<0, 16382, 14336, 3455, 16124, 13117, 10064, 3224>>,
       <<0, 16382, 13560, 3753, 1765, 5444, 7344, 8940>>,
       <<0, 16382, 12768, 4068, 16223, 8693, 14431, 12358>>,
       <<0, 16382, 11960, 4404, 6635, 1426, 12475, 995>>,
       <<0, 16382, 11136, 4760, 2311, 11043, 6580, 10897>>,
       <<0, 16382, 10296, 5137, 52, 15466, 15576, 15940>>,
       <<0, 16382, 9440, 5535, 13298, 8666, 8532, 2537>>,
       <<0, 16382, 8568, 5957, 6592, 644, 1016, 623>>,
       <<0, 16382, 7680, 6402, 10269, 1036, 16194, 5558>>,
       <<0, 16382, 6776, 6872, 5769, 2720, 9059, 4169>>,
       <<0, 16382, 5856, 7367, 7555, 14561, 15940, 6847>>,
       <<0, 16382, 4920, 7888, 13964, 12254, 5008, 3993>>,
       <<0, 16382, 3968, 8437, 7203, 3838, 1209, 10887>>,
       <<0, 16382, 3000, 9014, 2502, 13302, 10500, 4590>>,
       <<0, 16382, 2016, 9619, 15350, 15035, 5516, 15275>>,
       <<0, 16382, 1016, 10255, 12338, 15726, 5458, 11758>> >>,
    << <<0, 16382, 0, 10922, 9466, 5201, 4416, 7471>>,
       <<0, 16376, 10, 10916, 16021, 8789, 14042, 5042>>,
       <<0, 16366, 53, 16319, 3318, 7473, 2719, 9948>>,
       <<0, 16352, 170, 10558, 9882, 6465, 12535, 3233>>,
       <<0, 16334, 416, 9533, 15223, 1665, 7780, 1746>>,
       <<0, 16312, 863, 12237, 7386, 6344, 1386, 6908>>,
       <<0, 16286, 1600, 467, 3464, 15687, 11203, 6704>>,
       <<0, 16256, 2729, 4011, 7835, 6983, 9889, 2679>>,
       <<0, 16222, 4371, 1929, 7831, 10965, 3195, 3165>>,
       <<0, 16184, 6661, 3992, 8515, 8923, 5644, 7610>>,
       <<0, 16142, 9751, 989, 10156, 7383, 5693, 9834>>,
       <<0, 16096, 13807, 13273, 12509, 2873, 12263, 9361>>,
       <<0, 16047, 2630, 8172, 15544, 15476, 1695, 118>>,
       <<0, 15993, 9185, 13946, 2927, 7115, 8854, 11961>>,
       <<0, 15936, 920, 4300, 9465, 11856, 1046, 12390>>,
       <<0, 15874, 10831, 12221, 13579, 10720, 15667, 13029>>,
       <<0, 15809, 6397, 14366, 2271, 12801, 7055, 14881>>,
       <<0, 15740, 4263, 11997, 15677, 16003, 474, 8917>>,
       <<0, 15667, 4705, 13561, 11285, 11981, 10696, 7521>>,
       <<0, 15590, 8016, 807, 10749, 3563, 10645, 7320>>,
       <<0, 15509, 14501, 9544, 9437, 2970, 16290, 15051>>,
       <<0, 15425, 8100, 13722, 13831, 10655, 5198, 265>>,
       <<0, 15337, 5535, 6064, 15084, 3731, 11011, 3172>>,
       <<0, 15245, 7157, 13099, 2192, 5299, 6429, 14044>>,
       <<0, 15149, 13335, 11829, 3811, 16304, 14251, 10497>>,
       <<0, 15050, 8067, 10184, 509, 1262, 4985, 6665>>,
       <<0, 14947, 8134, 12719, 8241, 14723, 7472, 8818>>,
       <<0, 14840, 13949, 2645, 11515, 1453, 10913, 1941>>,
       <<0, 14730, 9553, 5714, 14704, 10716, 2837, 13575>>,
       <<0, 14616, 11772, 6595, 5153, 10959, 4513, 5696>>,
       <<0, 14499, 4677, 12642, 15087, 7304, 9698, 3242>>,
       <<0, 14378, 5123, 2927, 10876, 15215, 7641, 13963>>,
       <<0, 14253, 13592, 8274, 10153, 3182, 15560, 8964>>,
       <<0, 14125, 14199, 11024, 8304, 5210, 3889, 14586>>,
       <<0, 13994, 7456, 8578, 624, 6399, 7761, 12327>>,
       <<0, 13859, 10272, 11348, 9777, 1909, 5662, 16112>>,
       <<0, 13721, 6803, 7891, 12075, 2011, 5403, 11099>>,
       <<0, 13579, 13985, 11900, 360, 13180, 796, 3032>>,
       <<0, 13434, 16001, 10839, 11893, 2962, 2598, 12084>>,
       <<0, 13286, 13430, 12837, 15397, 12655, 15989, 884>>,
       <<0, 13135, 6865, 11596, 10402, 14614, 8089, 4051>>,
       <<0, 12980, 13296, 406, 4069, 14856, 1211, 12348>>,
       <<0, 12823, 572, 2491, 6070, 15365, 3829, 4529>>,
       <<0, 12662, 2093, 3001, 2051, 799, 125, 2618>>,
       <<0, 12498, 2118, 12020, 13873, 3299, 16354, 12282>>,
       <<0, 12331, 1304, 12845, 10983, 1070, 9082, 4026>>,
       <<0, 12161, 319, 8508, 10871, 1816, 5268, 6818>>,
       <<0, 11987, 16227, 2724, 2295, 4016, 5400, 3698>>,
       <<0, 11812, 567, 13550, 13250, 8493, 8522, 334>>,
       <<0, 11633, 3197, 5087, 6889, 1387, 1926, 13117>>,
       <<0, 11451, 8446, 15729, 9679, 9859, 14638, 3272>>,
       <<0, 11267, 659, 7852, 7930, 9061, 3009, 12825>>,
       <<0, 11079, 13340, 12360, 954, 8517, 5198, 11487>>,
       <<0, 10889, 14471, 11045, 9508, 3112, 11826, 7212>>,
       <<0, 10697, 4811, 15516, 2161, 13110, 6440, 4733>>,
       <<0, 10502, 1515, 15001, 13723, 12219, 16356, 1706>>,
       <<0, 10304, 5364, 6042, 9123, 3243, 8380, 5394>>,
       <<0, 10104, 764, 5748, 12979, 11611, 8777, 5446>>,
       <<0, 9901, 4900, 15869, 9447, 15039, 13136, 13061>>,
       <<0, 9696, 2201, 3204, 1825, 9100, 3838, 10149>>,
       <<0, 9488, 9869, 11045, 15365, 15154, 2104, 11652>>,
       <<0, 9278, 12352, 8444, 7117, 15072, 7082, 5349>>,
       <<0, 9066, 10489, 1572, 7219, 5166, 7138, 11315>> >>,
    << <<0, 8852, 5127, 13984, 13404, 9328, 9318, 13917>>,
       <<-1, 9565, 13930, 2760, 14317, 7116, 13341, 4932>>,
       <<-1, 163, 15776, 12099, 4460, 15880, 125, 130>>,
       <<-1, 5674, 11516, 9371, 6649, 14130, 4849, 14919>>,
       <<0, 4647, 8540, 1716, 11109, 5094, 8053, 10455>>,
       <<0, 15731, 7044, 12036, 6059, 13779, 12775, 1>>,
       <<0, 12351, 15311, 6948, 186, 11247, 5772, 5798>>,
       <<-1, 14000, 2088, 1254, 8408, 14413, 11782, 8788>>,
       <<-1, 1456, 684, 11068, 13476, 8037, 13389, 1498>>,
       <<-1, 2636, 10683, 7794, 9990, 16066, 469, 15641>>,
       <<0, 72, 8366, 4219, 8957, 15743, 1505, 441>>,
       <<0, 13825, 11522, 3436, 12053, 10248, 6587, 12922>>,
       <<0, 14867, 9962, 9409, 9657, 7346, 5048, 3998>>,
       <<0, 2240, 4957, 8549, 473, 3521, 13425, 8852>>,
       <<-1, 3937, 4476, 11371, 6250, 12969, 10618, 8557>>,
       <<-1, 693, 11584, 11578, 1121, 4729, 7168, 12111>>,
       <<-1, 11875, 11859, 14346, 7268, 7402, 12726, 12942>>,
       <<0, 10818, 10304, 11172, 9085, 13576, 4994, 1990>>,
       <<0, 16198, 15343, 528, 4802, 11782, 1355, 9575>>,
       <<0, 6686, 270, 5706, 8445, 13397, 12601, 3377>>,
       <<-1, 7410, 62, 4377, 1332, 13398, 2375, 14869>>,
       <<-1, 0, 10515, 9578, 6447, 15378, 9898, 15945>>,
       <<-1, 7654, 1045, 3521, 11373, 10351, 979, 7907>>,
       <<0, 6949, 12269, 4262, 615, 8423, 5856, 8253>>,
       <<0, 16239, 14202, 12960, 10232, 12644, 14651, 6787>>,
       <<0, 10599, 2067, 4661, 3943, 692, 12361, 7774>>,
       <<-1, 11597, 9793, 10850, 1195, 7778, 8910, 5734>>,
       <<-1, 612, 10903, 5371, 6143, 6752, 4917, 14618>>,
       <<-1, 4127, 13523, 14806, 3524, 4526, 10470, 1226>>,
       <<0, 2527, 4190, 4738, 13476, 4699, 16, 6292>>,
       <<0, 14987, 2273, 15397, 4351, 14140, 10253, 412>>,
       <<0, 13667, 15000, 3005, 1833, 12765, 4822, 14254>>,
       <<-1, 16166, 7762, 4996, 13329, 188, 9805, 4714>>,
       <<-1, 2481, 403, 5573, 74, 15403, 7392, 11105>>,
       <<-1, 1577, 14858, 13805, 6852, 15274, 1853, 13607>>,
       <<-1, 14287, 7256, 10214, 3239, 9670, 10525, 8191>>,
       <<0, 12540, 8910, 1028, 3164, 15537, 3230, 14971>>,
       <<0, 15647, 15181, 2513, 9645, 11353, 10441, 15773>>,
       <<0, 4368, 11105, 2248, 2652, 6707, 8893, 1352>>,
       <<-1, 5456, 14529, 4859, 13194, 11753, 6074, 8587>>,
       <<-1, 207, 7098, 13290, 6406, 13406, 11308, 3458>>,
       <<-1, 9830, 10495, 9466, 10602, 4964, 10871, 10689>>,
       <<0, 9094, 15996, 3692, 3449, 7131, 15122, 12790>>,
       <<0, 16381, 7090, 7952, 10783, 16277, 12333, 2459>>,
       <<0, 8606, 14343, 10078, 501, 3453, 13091, 363>>,
       <<-1, 9303, 3220, 4779, 6619, 6685, 15881, 2813>>,
       <<-1, 125, 9431, 13656, 113, 8696, 2443, 14393>>,
       <<-1, 5895, 14338, 5386, 8380, 11763, 9759, 3511>>,
       <<0, 4924, 14880, 9011, 9495, 13448, 13107, 7468>>,
       <<0, 15810, 55, 14463, 10188, 4516, 16084, 5819>>,
       <<0, 12159, 7444, 3998, 780, 11667, 4461, 10380>>,
       <<-1, 13713, 9159, 7099, 5417, 9890, 10765, 12715>>,
       <<-1, 1338, 14005, 8948, 15240, 5125, 10695, 9674>>,
       <<-1, 2796, 9628, 13927, 16074, 13582, 754, 11116>>,
       <<0, 362, 8597, 14859, 15450, 2663, 2017, 9349>>,
       <<0, 13979, 2592, 11221, 1476, 5814, 9098, 15672>>,
       <<0, 14743, 6850, 602, 1467, 13057, 8188, 4457>>,
       <<0, 1952, 10606, 87, 9532, 6538, 8705, 3831>>,
       <<-1, 3750, 10184, 12007, 12935, 5014, 10591, 14598>>,
       <<-1, 779, 10907, 4946, 15721, 13889, 13746, 13719>>,
       <<-1, 12155, 4305, 10855, 7669, 80, 170, 9843>>,
       <<0, 11034, 12146, 3892, 13171, 6270, 8855, 2914>>,
       <<0, 16152, 15230, 7306, 8074, 519, 16249, 2326>> >>,
    << <<0, 6420, 3094, 5525, 9151, 13623, 7431, 9715>>,
       <<-1, 5031, 9746, 1349, 7854, 8161, 3638, 3814>>,
       <<-1, 1066, 12567, 7815, 11441, 15586, 13775, 9998>>,
       <<-1, 15732, 1117, 3494, 9748, 6898, 9167, 14390>>,
       <<0, 14806, 4989, 13457, 3418, 13688, 873, 8729>>,
       <<0, 12255, 13874, 59, 3903, 15163, 1318, 11277>>,
       <<-1, 11182, 12776, 7811, 14365, 16375, 6720, 1743>>,
       <<-1, 51, 14446, 2812, 1563, 5475, 1306, 5078>>,
       <<-1, 8785, 8239, 12883, 15168, 10017, 1456, 8266>>,
       <<0, 10377, 1085, 2011, 12088, 11273, 8864, 3592>>,
       <<0, 15731, 2522, 5081, 14603, 12413, 13408, 13682>>,
       <<0, 1951, 10921, 10930, 4996, 15994, 14912, 4595>>,
       <<-1, 2182, 6478, 1689, 7580, 14382, 3851, 11482>>,
       <<-1, 3302, 5414, 13781, 5265, 11421, 14317, 12891>>,
       <<0, 3949, 5096, 2708, 4496, 6198, 1380, 3699>>,
       <<0, 16176, 13134, 12125, 11708, 682, 13490, 2028>>,
       <<0, 8728, 11179, 13562, 11565, 9543, 12151, 2456>>,
       <<-1, 7047, 16267, 13949, 4509, 12210, 7451, 15949>>,
       <<-1, 338, 9074, 11276, 2532, 14618, 15981, 13895>>,
       <<-1, 13144, 15711, 1804, 6036, 16029, 2537, 8890>>,
       <<0, 13506, 15774, 8215, 293, 5689, 11482, 9433>>,
       <<0, 13824, 10537, 2814, 132, 1176, 10176, 5873>>,
       <<-1, 13711, 9993, 5350, 13884, 1223, 8547, 12775>>,
       <<-1, 464, 15829, 1299, 3198, 1213, 13723, 16070>>,
       <<-1, 6580, 6766, 12164, 3944, 7170, 4976, 536>>,
       <<0, 8235, 13450, 14448, 15266, 14974, 9783, 9950>>,
       <<0, 16258, 1949, 7990, 9547, 13820, 189, 10789>>,
       <<0, 4505, 14778, 667, 11831, 6864, 8782, 16370>>,
       <<-1, 3657, 3629, 15325, 6859, 4109, 16382, 9664>>,
       <<-1, 1903, 15363, 7605, 5800, 8817, 2054, 13657>>,
       <<0, 1378, 8916, 12666, 8058, 1277, 6568, 9152>>,
       <<0, 15560, 7329, 4050, 13768, 5539, 5182, 2918>>,
       <<0, 10816, 6608, 11331, 14632, 12086, 7054, 1501>>,
       <<-1, 9300, 8591, 9373, 9999, 16204, 2974, 11089>>,
       <<-1, 16, 2856, 13625, 3045, 8306, 13338, 726>>,
       <<-1, 10639, 12680, 12079, 1757, 15532, 10646, 2022>>,
       <<0, 11865, 16263, 3367, 15059, 6615, 183, 790>>,
       <<0, 15043, 12714, 11462, 6074, 13399, 1470, 3748>>,
       <<-1, 16308, 527, 10344, 5370, 3970, 252, 9188>>,
       <<-1, 1280, 11254, 1728, 7011, 11210, 1894, 13485>>,
       <<-1, 4623, 4635, 3105, 7438, 13703, 10779, 13196>>,
       <<0, 5886, 4408, 1895, 4124, 6864, 13324, 430>>,
       <<0, 16373, 14274, 13335, 782, 3153, 5466, 1171>>,
       <<0, 6946, 2795, 12810, 16166, 14165, 7918, 13341>>,
       <<-1, 5453, 15451, 15901, 16011, 12778, 15304, 14568>>,
       <<-1, 871, 12873, 3606, 13860, 1345, 8978, 16350>>,
       <<-1, 15156, 14913, 4647, 10062, 15778, 444, 4944>>,
       <<0, 14550, 8622, 11264, 4928, 12131, 2645, 15291>>,
       <<0, 12630, 8972, 5979, 3488, 13945, 9225, 4421>>,
       <<-1, 11732, 3547, 12665, 11109, 7255, 11775, 15008>>,
       <<-1, 107, 12818, 14605, 881, 1691, 14208, 10637>>,
       <<-1, 8279, 14358, 5239, 4421, 8019, 831, 4416>>,
       <<0, 9924, 14724, 7477, 9198, 15087, 15743, 10033>>,
       <<0, 15882, 6722, 156, 7462, 4936, 3078, 4556>>,
       <<0, 2522, 6158, 12048, 10629, 3226, 1447, 6276>>,
       <<-1, 2478, 6753, 5033, 6417, 14951, 1740, 5478>>,
       <<-1, 2963, 10057, 4283, 3145, 5450, 4210, 1833>>,
       <<0, 3387, 13715, 3993, 10672, 15561, 2755, 11710>>,
       <<0, 16075, 7914, 15299, 12556, 2924, 4109, 7972>>,
       <<0, 9210, 12311, 12473, 336, 13992, 15022, 1104>>,
       <<-1, 7527, 1900, 13673, 15076, 2674, 1434, 4314>>,
       <<-1, 231, 16064, 6959, 60, 419, 3236, 12837>>,
       <<-1, 12582, 5123, 10940, 7331, 2580, 6864, 10914>> >>,
    << <<0, 13172, 9538, 15577, 13153, 14217, 12756, 14174>>,
       <<0, 4797, 4340, 3762, 12872, 15758, 10550, 10811>>,
       <<-1, 10925, 5401, 12988, 3187, 9624, 4787, 10735>>,
       <<-1, 2809, 4845, 2754, 4415, 1887, 12558, 3526>>,
       <<-1, 14, 13118, 1776, 3276, 8388, 5805, 15615>>,
       <<-1, 3637, 5554, 14815, 12129, 3852, 11277, 6622>>,
       <<-1, 12256, 13235, 2902, 14797, 9698, 12127, 4698>>,
       <<0, 6110, 3496, 4509, 7467, 5912, 685, 2010>>,
       <<0, 13952, 4925, 6397, 12074, 15110, 9073, 15309>>,
       <<0, 16324, 13501, 11235, 11673, 11433, 13913, 10468>>,
       <<0, 12297, 11633, 1687, 7523, 2903, 7129, 3614>>,
       <<0, 3449, 10859, 515, 3900, 3744, 1769, 15855>>,
       <<-1, 9633, 4636, 1796, 1221, 6207, 13495, 313>>,
       <<-1, 2079, 5094, 11929, 7604, 11940, 2502, 3555>>,
       <<-1, 133, 747, 831, 10540, 7768, 2158, 7850>>,
       <<-1, 4557, 7527, 7898, 15268, 1618, 13442, 11927>>,
       <<-1, 13618, 1625, 6092, 3735, 10231, 9042, 10668>>,
       <<0, 7379, 393, 4785, 10697, 1645, 9594, 3529>>,
       <<0, 14631, 3815, 5072, 7250, 10403, 3991, 9705>>,
       <<0, 16147, 11858, 5287, 2217, 3948, 6365, 6124>>,
       <<0, 11334, 62, 9569, 13529, 2571, 7987, 2077>>,
       <<0, 2077, 2319, 14389, 12272, 10086, 12566, 4824>>,
       <<-1, 8390, 14, 3974, 8414, 10975, 15825, 6806>>,
       <<-1, 1452, 10778, 10296, 3400, 1865, 1380, 15974>>,
       <<-1, 368, 11162, 7041, 3960, 9651, 8557, 13086>>,
       <<-1, 5563, 168, 15647, 7235, 13388, 8051, 6458>>,
       <<-1, 14999, 6069, 470, 1604, 6770, 13485, 735>>,
       <<0, 8594, 8705, 3337, 10650, 2801, 9108, 10920>>,
       <<0, 15204, 7775, 13503, 5263, 3527, 12980, 2966>>,
       <<0, 15853, 16030, 956, 9114, 566, 7138, 2568>>,
       <<0, 10288, 6963, 13138, 5932, 11856, 12793, 350>>,
       <<0, 689, 10091, 3033, 1448, 319, 7393, 10321>>,
       <<-1, 7204, 7608, 15099, 2788, 9841, 6255, 6264>>,
       <<-1, 933, 14142, 6840, 7384, 9767, 6600, 13524>>,
       <<-1, 720, 92, 5325, 16174, 15878, 14165, 6644>>,
       <<-1, 6646, 11926, 8556, 4928, 5138, 10069, 5617>>,
       <<0, 6, 10546, 2465, 10358, 8552, 12428, 1940>>,
       <<0, 9747, 15646, 7803, 13122, 1158, 10730, 5165>>,
       <<0, 15667, 14498, 11760, 1012, 7737, 4853, 6237>>,
       <<0, 15445, 11630, 3280, 2059, 3928, 6227, 13700>>,
       <<0, 9168, 8626, 15310, 9339, 8180, 5394, 15068>>,
       <<-1, 15681, 1781, 2881, 749, 15251, 11701, 15617>>,
       <<-1, 6085, 3890, 9399, 1940, 16374, 6676, 13520>>,
       <<-1, 526, 11050, 6621, 11753, 11015, 9222, 15413>>,
       <<-1, 1184, 7876, 13983, 16037, 11926, 9521, 11283>>,
       <<-1, 7800, 12844, 3331, 2047, 2071, 11812, 4062>>,
       <<0, 1397, 14236, 16053, 453, 6403, 14995, 2813>>,
       <<0, 10830, 15779, 4775, 1330, 9008, 9940, 3057>>,
       <<0, 16018, 1906, 8560, 13585, 1113, 236, 4627>>,
       <<0, 14925, 14210, 1373, 9597, 15050, 2721, 5850>>,
       <<0, 7982, 6522, 563, 8315, 8787, 8642, 7880>>,
       <<-1, 14293, 11123, 10601, 5867, 11490, 7290, 4957>>,
       <<-1, 5040, 6633, 12670, 15271, 8282, 6188, 9213>>,
       <<-1, 234, 542, 2045, 4468, 538, 12584, 10059>>,
       <<-1, 1758, 12312, 8626, 5092, 14904, 3135, 43>>,
       <<-1, 9016, 13793, 5573, 7049, 36, 2208, 13099>>,
       <<0, 2778, 16327, 7193, 10612, 14757, 2940, 7474>>,
       <<0, 11835, 11999, 10511, 15715, 14355, 11866, 13644>>,
       <<0, 16252, 10468, 11502, 9479, 12236, 4142, 5856>>,
       <<0, 14298, 3374, 533, 12194, 2748, 7467, 13998>>,
       <<0, 6738, 9957, 9745, 5391, 1488, 8368, 9584>>,
       <<-1, 12921, 5715, 7751, 10055, 3169, 9774, 154>>,
       <<-1, 4077, 8424, 6272, 9819, 15649, 14692, 2974>> >>,
    << <<-1, 58, 868, 3704, 14266, 500, 1820, 15635>>,
       <<0, 16152, 3267, 6476, 16339, 1697, 5814, 3136>>,
       <<-1, 520, 188, 26, 1711, 7625, 1588, 9557>>,
       <<0, 15463, 5844, 9724, 5487, 6078, 8232, 4496>>,
       <<-1, 1430, 14039, 1142, 11906, 7009, 5210, 13127>>,
       <<0, 14336, 15783, 14111, 3452, 10034, 4568, 3404>>,
       <<-1, 2764, 13368, 7479, 2143, 13981, 8141, 11736>>,
       <<0, 12804, 14610, 7392, 10190, 9907, 11201, 15802>>,
       <<-1, 4484, 2343, 3375, 1939, 11008, 12751, 1947>>,
       <<0, 10910, 8082, 8599, 9009, 12586, 6489, 579>>,
       <<-1, 6540, 3081, 5141, 6386, 7207, 14570, 6623>>,
       <<0, 8707, 6093, 6072, 10621, 15615, 3846, 1679>>,
       <<-1, 8874, 12669, 15303, 14646, 15326, 5120, 8723>>,
       <<0, 6257, 14204, 9874, 4945, 1877, 15098, 12727>>,
       <<-1, 11421, 13752, 10944, 10496, 8278, 7737, 6210>>,
       <<0, 3631, 4745, 8494, 15352, 11495, 4044, 6097>>,
       <<-1, 14109, 5154, 12362, 11780, 5049, 14964, 9624>>,
       <<0, 901, 15752, 6336, 9817, 7336, 9464, 640>>,
       <<0, 477, 2527, 9733, 15378, 14049, 5299, 8035>>,
       <<-1, 14531, 1824, 14608, 854, 14617, 12292, 3355>>,
       <<0, 3215, 8067, 2708, 12543, 10311, 1817, 4950>>,
       <<-1, 11828, 11314, 11250, 9656, 14343, 12926, 8239>>,
       <<0, 5862, 13844, 12736, 6898, 1710, 15389, 13014>>,
       <<-1, 9255, 2731, 2493, 3183, 1076, 1287, 4344>>,
       <<0, 8344, 4960, 11604, 2926, 12922, 933, 14398>>,
       <<-1, 6883, 5898, 15095, 16043, 14076, 7885, 14044>>,
       <<0, 10589, 10656, 4783, 1088, 13514, 15249, 1866>>,
       <<-1, 4780, 6278, 4626, 1324, 10899, 5030, 178>>,
       <<0, 12535, 5793, 12926, 15768, 14484, 10104, 4668>>,
       <<-1, 3005, 12155, 11714, 9564, 6040, 10361, 5656>>,
       <<0, 14126, 5846, 15640, 6769, 13758, 15327, 8420>>,
       <<-1, 1609, 10672, 15555, 9221, 4168, 10096, 16248>>,
       <<0, 15317, 10504, 14055, 11481, 16348, 5457, 11319>>,
       <<-1, 631, 10083, 2369, 1478, 2291, 3065, 7641>>,
       <<0, 16075, 8158, 11987, 2978, 2602, 16295, 12552>>,
       <<-1, 99, 5052, 14948, 1824, 8674, 4075, 3171>>,
       <<0, 16378, 7913, 4776, 16255, 1711, 4414, 12960>>,
       <<-1, 27, 12984, 6533, 7226, 15414, 1764, 1820>>,
       <<0, 16218, 376, 5484, 16369, 10802, 11472, 13566>>,
       <<-1, 419, 1496, 7493, 15527, 16240, 15561, 7586>>,
       <<0, 15598, 10785, 5086, 8484, 11863, 7209, 2962>>,
       <<-1, 1262, 2174, 8202, 6158, 9297, 7428, 2481>>,
       <<0, 14537, 14982, 6526, 4447, 15264, 5560, 4249>>,
       <<-1, 2533, 1015, 9417, 10136, 202, 12590, 6560>>,
       <<0, 13065, 13209, 10744, 10220, 374, 11444, 735>>,
       <<-1, 4195, 15023, 6777, 15321, 941, 3417, 1025>>,
       <<0, 11223, 16194, 2199, 3480, 4504, 1440, 5689>>,
       <<-1, 6203, 10576, 8911, 3192, 5264, 3316, 7220>>,
       <<0, 9064, 9452, 11462, 583, 6357, 4724, 7966>>,
       <<-1, 8499, 7161, 11282, 15791, 2081, 6865, 14675>>,
       <<0, 6648, 11050, 16152, 15097, 2859, 12814, 1333>>,
       <<-1, 11018, 5407, 3911, 6248, 121, 2011, 13547>>,
       <<0, 4044, 10508, 2322, 4818, 4370, 4443, 3126>>,
       <<-1, 13689, 815, 8947, 1510, 7412, 3351, 7866>>,
       <<0, 1326, 2640, 15022, 7807, 2178, 15877, 9699>>,
       <<0, 52, 421, 14265, 14769, 13684, 14631, 9048>>,
       <<-1, 14954, 2555, 13802, 15618, 11297, 4143, 13181>>,
       <<0, 2797, 8676, 16358, 1207, 8076, 1228, 9073>>,
       <<-1, 12238, 9988, 1469, 4927, 3285, 6303, 12598>>,
       <<0, 5463, 14330, 3129, 4317, 12227, 9315, 5981>>,
       <<-1, 9640, 5916, 1211, 12701, 15243, 6289, 15815>>,
       <<0, 7975, 10060, 13520, 12655, 14646, 3859, 14319>>,
       <<-1, 7232, 15242, 13099, 7082, 11421, 9744, 9277>> >>,
    << <<0, 10261, 11071, 10209, 9424, 10354, 12772, 14637>>,
       <<-1, 12854, 4042, 12039, 12507, 15429, 12222, 6028>>,
       <<-1, 1700, 12993, 10471, 6976, 10400, 14994, 15141>>,
       <<-1, 1520, 14636, 435, 254, 9284, 4035, 8350>>,
       <<-1, 12448, 16323, 2937, 8100, 4034, 5934, 14439>>,
       <<0, 9933, 15403, 9326, 768, 7600, 15474, 2165>>,
       <<0, 16378, 11694, 10697, 8330, 12289, 13707, 11022>>,
       <<0, 10582, 12936, 13562, 7382, 10137, 1135, 6716>>,
       <<-1, 13261, 12696, 5894, 14038, 8689, 9270, 4144>>,
       <<-1, 1890, 2748, 7046, 6884, 7612, 14921, 237>>,
       <<-1, 1350, 9577, 9338, 1809, 15824, 13016, 7460>>,
       <<-1, 12046, 4670, 2871, 12048, 12971, 9050, 8987>>,
       <<0, 9599, 13013, 10284, 5742, 8764, 8688, 9940>>,
       <<0, 16362, 14066, 8189, 4892, 13558, 13024, 11927>>,
       <<0, 10897, 1220, 3760, 1714, 3727, 8605, 11546>>,
       <<-1, 13671, 5207, 8044, 6723, 5094, 8352, 12572>>,
       <<-1, 2088, 14666, 4076, 14187, 8058, 11232, 12210>>,
       <<-1, 1189, 16002, 13870, 14664, 5218, 7424, 9247>>,
       <<-1, 11646, 6109, 5886, 1726, 15609, 15555, 2348>>,
       <<0, 9259, 7434, 8723, 13470, 10044, 15839, 7930>>,
       <<0, 16336, 7283, 2770, 4773, 5019, 2866, 15842>>,
       <<0, 11204, 5367, 1202, 13033, 1529, 435, 2128>>,
       <<-1, 14082, 10014, 4335, 5953, 11901, 755, 6532>>,
       <<-1, 2296, 13878, 1045, 257, 9398, 476, 7925>>,
       <<-1, 1039, 2841, 14280, 5563, 6955, 14221, 10095>>,
       <<-1, 11249, 8484, 12690, 9717, 13990, 14569, 19>>,
       <<0, 8913, 2264, 8353, 1112, 3097, 11300, 15110>>,
       <<0, 16299, 8007, 15090, 13508, 4151, 5303, 3588>>,
       <<0, 11504, 5744, 15525, 3297, 12133, 1703, 14127>>,
       <<-1, 14495, 6384, 5081, 2320, 9665, 2822, 8169>>,
       <<-1, 2513, 14569, 5211, 8475, 4076, 11499, 2981>>,
       <<-1, 898, 4457, 34, 895, 10676, 927, 14541>>,
       <<-1, 10855, 15992, 2344, 14165, 3113, 12388, 8671>>,
       <<0, 8561, 1164, 15675, 15839, 15421, 7633, 7569>>,
       <<0, 16252, 247, 7668, 3145, 8210, 7022, 4634>>,
       <<0, 11796, 15565, 14404, 462, 15097, 3446, 7596>>,
       <<-1, 14909, 6337, 9114, 8196, 16044, 3974, 7119>>,
       <<-1, 2739, 14445, 5707, 8223, 7988, 5297, 16091>>,
       <<-1, 767, 5953, 14884, 1011, 11681, 7331, 6290>>,
       <<-1, 10466, 24, 2587, 4696, 1437, 2807, 645>>,
       <<0, 8203, 7858, 1281, 13238, 10454, 14350, 13674>>,
       <<0, 16194, 887, 11827, 14189, 2202, 230, 15685>>,
       <<0, 12081, 15352, 6245, 7731, 13767, 13479, 5994>>,
       <<-1, 15324, 5497, 774, 5932, 2116, 5311, 10476>>,
       <<-1, 2974, 11116, 14178, 12330, 7039, 4473, 72>>,
       <<-1, 646, 8716, 10045, 5845, 4545, 10558, 13285>>,
       <<-1, 10079, 13855, 13078, 4770, 3015, 13705, 10693>>,
       <<0, 7840, 9740, 7948, 8838, 13121, 15303, 1948>>,
       <<0, 16125, 10541, 7709, 1114, 830, 14569, 1743>>,
       <<0, 12359, 2091, 7354, 14601, 15481, 5661, 12928>>,
       <<-1, 15739, 15859, 12564, 14368, 11211, 16024, 9670>>,
       <<-1, 3218, 2101, 8126, 4864, 2972, 3302, 9678>>,
       <<-1, 535, 14022, 9787, 7048, 3673, 6495, 1765>>,
       <<-1, 9697, 12417, 10962, 7617, 11456, 11457, 6507>>,
       <<0, 7472, 10648, 12368, 8567, 5498, 16319, 3803>>,
       <<0, 16046, 13547, 16090, 1840, 7276, 15988, 13854>>,
       <<0, 12628, 5620, 8255, 9685, 13641, 11821, 4872>>,
       <<-1, 16156, 263, 7696, 13819, 7836, 5933, 11323>>,
       <<-1, 3470, 1209, 6303, 2037, 13412, 14225, 6000>>,
       <<-1, 435, 6657, 16008, 3037, 6791, 1119, 1222>>,
       <<-1, 9319, 16133, 6009, 8089, 12747, 16191, 3754>>,
       <<0, 7099, 14472, 15658, 9625, 12351, 4179, 9175>>,
       <<0, 15957, 10740, 8821, 11535, 5755, 3927, 14008>> >>,
    << <<0, 12889, 6709, 4672, 2588, 13283, 1720, 5032>>,
       <<0, 3896, 6234, 10392, 15529, 2607, 5255, 2844>>,
       <<-1, 9625, 3459, 3587, 15418, 12041, 13230, 8981>>,
       <<-1, 1853, 4010, 8166, 7109, 7972, 3127, 13372>>,
       <<-1, 279, 14608, 23, 15718, 6748, 16233, 9962>>,
       <<-1, 5576, 5269, 14272, 1456, 14381, 9087, 3434>>,
       <<-1, 15483, 2511, 14545, 2254, 4263, 10050, 14991>>,
       <<0, 9390, 4478, 7304, 1461, 13110, 15714, 12506>>,
       <<0, 15675, 10429, 250, 2265, 1818, 6204, 5730>>,
       <<0, 15273, 16326, 10018, 13614, 7610, 957, 1148>>,
       <<0, 8356, 11258, 2689, 6202, 10358, 15621, 15855>>,
       <<-1, 14258, 8750, 12226, 11814, 9526, 11470, 4264>>,
       <<-1, 4683, 1221, 2966, 1358, 4900, 16142, 4805>>,
       <<-1, 99, 1033, 8278, 11604, 6785, 6485, 13428>>,
       <<-1, 2461, 15953, 7569, 15288, 12908, 15560, 13247>>,
       <<-1, 10763, 13474, 14728, 12816, 13551, 2702, 3282>>,
       <<0, 5079, 2602, 8379, 15972, 140, 9316, 3196>>,
       <<0, 13611, 13081, 10710, 2531, 4113, 11379, 9729>>,
       <<0, 16337, 13741, 13427, 11782, 870, 13344, 177>>,
       <<0, 12094, 6385, 16352, 10843, 4438, 3328, 13226>>,
       <<0, 2691, 10591, 682, 11936, 12176, 11618, 12539>>,
       <<-1, 8524, 11224, 638, 6437, 8479, 11919, 10660>>,
       <<-1, 1326, 6479, 10575, 6996, 2857, 6829, 12935>>,
       <<-1, 551, 7626, 9129, 6699, 15278, 8583, 10148>>,
       <<-1, 6530, 7686, 12934, 9510, 2316, 4378, 9310>>,
       <<0, 328, 13905, 7800, 14150, 54, 3963, 497>>,
       <<0, 10370, 15500, 15044, 12066, 456, 10459, 11988>>,
       <<0, 15988, 15492, 15835, 10649, 3267, 5814, 3614>>,
       <<0, 14786, 4730, 2957, 12840, 9336, 14559, 594>>,
       <<0, 7276, 191, 6028, 16160, 7017, 12855, 8620>>,
       <<-1, 13045, 14609, 16344, 7753, 11636, 4296, 2429>>,
       <<-1, 3855, 12471, 9080, 2295, 15998, 11711, 11562>>,
       <<-1, 9, 16365, 10086, 7654, 9906, 3054, 5124>>,
       <<-1, 3149, 2493, 2281, 14373, 1140, 13886, 6494>>,
       <<-1, 11934, 1687, 9833, 5047, 11308, 15669, 10191>>,
       <<0, 6233, 5185, 9579, 11042, 3015, 16066, 8259>>,
       <<0, 14257, 7962, 5372, 14810, 6354, 4495, 15228>>,
       <<0, 16199, 10077, 52, 4326, 13412, 10961, 12794>>,
       <<0, 11231, 3590, 441, 3972, 7704, 13455, 257>>,
       <<0, 1471, 12207, 13701, 10087, 6242, 1152, 7281>>,
       <<-1, 7468, 7300, 11669, 10179, 3946, 12467, 6451>>,
       <<-1, 884, 6464, 15793, 3073, 9185, 8859, 2237>>,
       <<-1, 912, 4168, 12841, 8317, 10551, 14023, 15793>>,
       <<-1, 7540, 2302, 10185, 4276, 1721, 15118, 5089>>,
       <<0, 1556, 11322, 15037, 7556, 849, 8195, 11199>>,
       <<0, 11293, 2939, 6383, 1643, 1386, 2060, 11067>>,
       <<0, 16212, 2592, 16021, 10009, 14601, 9304, 15810>>,
       <<0, 14215, 4282, 2298, 9983, 7521, 5304, 14491>>,
       <<0, 6154, 5512, 12323, 4874, 10475, 12367, 10687>>,
       <<-1, 11852, 971, 14031, 3561, 6519, 13659, 9674>>,
       <<-1, 3099, 712, 10682, 2121, 15907, 12823, 5814>>,
       <<-1, 13, 3290, 15812, 7713, 12108, 13584, 12941>>,
       <<-1, 3910, 14875, 7801, 991, 14976, 896, 3997>>,
       <<-1, 13129, 7510, 956, 3321, 11422, 15, 1950>>,
       <<0, 7352, 5733, 1587, 12068, 270, 472, 1869>>,
       <<0, 14822, 13659, 13096, 6503, 1978, 8560, 15369>>,
       <<0, 15970, 1766, 11652, 9201, 15314, 51, 8153>>,
       <<0, 10304, 12475, 7728, 7704, 6088, 15091, 6105>>,
       <<0, 243, 9021, 6495, 4978, 10289, 8091, 4823>>,
       <<-1, 6462, 7283, 15402, 2686, 4296, 13620, 4917>>,
       <<-1, 529, 12005, 1566, 10786, 8020, 9774, 5064>>,
       <<-1, 1360, 3693, 11984, 6186, 4911, 2367, 14584>>,
       <<-1, 8599, 10589, 15563, 10666, 7697, 15235, 13044>> >>,
    << <<0, 2775, 12478, 11408, 1617, 11385, 9860, 7771>>,
       <<-1, 940, 8745, 5817, 6610, 6924, 9250, 14317>>,
       <<-1, 8375, 6615, 854, 15821, 8416, 6853, 10814>>,
       <<0, 12729, 13906, 2297, 8569, 13355, 5205, 12189>>,
       <<0, 12321, 15628, 11272, 8386, 3658, 13, 444>>,
       <<-1, 7829, 4891, 12569, 15254, 9972, 151, 14879>>,
       <<-1, 1163, 6347, 2993, 6636, 7962, 2829, 8184>>,
       <<0, 3397, 6195, 1313, 16076, 4886, 15051, 11479>>,
       <<0, 16371, 12676, 8569, 2622, 12305, 614, 13821>>,
       <<0, 2150, 39, 13084, 12236, 10775, 15323, 795>>,
       <<-1, 740, 11944, 175, 15192, 15493, 9988, 1214>>,
       <<-1, 8933, 7561, 1975, 3603, 11495, 2140, 4834>>,
       <<0, 13118, 12202, 620, 10988, 9945, 7836, 12960>>,
       <<0, 11895, 10959, 12454, 2086, 15065, 8154, 15729>>,
       <<-1, 7295, 15744, 15439, 11955, 12466, 7509, 13815>>,
       <<-1, 1408, 15684, 2442, 11198, 2526, 5263, 9484>>,
       <<0, 4013, 15140, 13567, 10022, 7894, 12902, 735>>,
       <<0, 16335, 1853, 921, 7190, 7117, 7831, 1694>>,
       <<0, 1521, 563, 13269, 3313, 554, 13926, 8986>>,
       <<-1, 564, 4444, 14588, 6678, 14944, 9114, 13403>>,
       <<-1, 9502, 10468, 404, 9476, 4522, 11952, 9924>>,
       <<0, 13488, 1006, 14310, 9030, 715, 5652, 10318>>,
       <<0, 11451, 10323, 1980, 914, 247, 11444, 1403>>,
       <<-1, 6776, 3064, 877, 11792, 11745, 13137, 12011>>,
       <<-1, 1676, 14367, 7188, 10937, 4947, 7560, 9815>>,
       <<0, 4624, 7855, 13170, 13081, 8185, 14462, 3731>>,
       <<0, 16274, 1194, 752, 12928, 11356, 7035, 15943>>,
       <<0, 889, 13046, 10098, 1345, 2620, 6252, 1648>>,
       <<-1, 411, 6946, 13747, 8648, 7334, 7184, 8937>>,
       <<-1, 10082, 1417, 14944, 15606, 7763, 11801, 6743>>,
       <<0, 13837, 4057, 14800, 12672, 5248, 6179, 1589>>,
       <<0, 10990, 8192, 10857, 5306, 1250, 5977, 12416>>,
       <<-1, 6270, 12326, 14941, 5960, 2217, 3945, 7926>>,
       <<-1, 1966, 12229, 11916, 10670, 9435, 8421, 12966>>,
       <<0, 5228, 2178, 5868, 4217, 11035, 7806, 2651>>,
       <<0, 16188, 12192, 1353, 14738, 9465, 5065, 13187>>,
       <<0, 257, 3771, 10057, 9090, 7508, 5915, 5515>>,
       <<-1, 282, 6803, 6002, 2645, 7114, 8978, 6248>>,
       <<-1, 10670, 15393, 13069, 9530, 11807, 13995, 11624>>,
       <<0, 14165, 12816, 10258, 14321, 7281, 2173, 8022>>,
       <<0, 10512, 15844, 3298, 14596, 5793, 4554, 15418>>,
       <<-1, 5780, 6740, 11384, 10584, 2591, 2923, 7199>>,
       <<-1, 2278, 2182, 15714, 8695, 365, 6487, 7645>>,
       <<0, 5823, 16115, 9999, 15595, 15188, 7290, 1092>>,
       <<0, 16079, 4165, 11032, 8474, 3364, 6456, 8550>>,
       <<-1, 16008, 4590, 10996, 3227, 9210, 10319, 13310>>,
       <<-1, 177, 7169, 1117, 10599, 2026, 14361, 11750>>,
       <<-1, 11268, 5228, 11631, 2914, 6035, 6273, 2934>>,
       <<0, 14473, 2865, 8614, 10601, 13400, 2213, 12991>>,
       <<0, 10019, 12186, 10600, 15447, 3962, 1795, 6243>>,
       <<-1, 5305, 14679, 8196, 6343, 10285, 2656, 8992>>,
       <<-1, 2610, 9380, 15170, 29, 711, 5515, 6680>>,
       <<0, 6411, 2329, 7842, 9848, 14012, 3526, 12209>>,
       <<0, 15945, 12560, 2092, 16075, 190, 11080, 4167>>,
       <<-1, 15375, 14597, 727, 13224, 4937, 11607, 1095>>,
       <<-1, 96, 10610, 15057, 13079, 11432, 13227, 5088>>,
       <<-1, 11873, 5467, 2969, 13484, 9010, 12368, 13878>>,
       <<0, 14758, 15840, 1008, 4576, 7974, 14112, 15763>>,
       <<0, 9511, 9280, 9452, 6478, 8692, 15838, 3874>>,
       <<-1, 4847, 14978, 7403, 8202, 1822, 9133, 8999>>,
       <<-1, 2963, 9310, 10333, 8895, 7568, 15940, 3496>>,
       <<0, 6988, 11998, 6973, 10912, 12798, 10934, 5283>>,
       <<0, 15788, 7871, 9209, 1878, 4241, 12335, 3114>> >>,
    << <<-1, 14745, 102, 4556, 10984, 4724, 13806, 5974>>,
       <<-1, 327, 15033, 1209, 15422, 4949, 7883, 14184>>,
       <<0, 4851, 6127, 8911, 8030, 16045, 15272, 4509>>,
       <<0, 15085, 7471, 8823, 14796, 11662, 5355, 4366>>,
       <<-1, 8514, 7231, 15481, 2599, 3163, 2342, 12349>>,
       <<-1, 2873, 427, 4757, 7536, 2290, 15183, 13611>>,
       <<0, 10572, 12003, 14411, 911, 10446, 8185, 12323>>,
       <<0, 11395, 10831, 923, 10667, 6440, 1775, 342>>,
       <<-1, 3531, 5065, 6423, 10847, 4184, 10085, 15254>>,
       <<-1, 7559, 13249, 439, 1803, 14283, 1336, 10212>>,
       <<0, 14618, 2763, 10831, 2175, 13389, 8050, 13795>>,
       <<0, 5899, 8160, 8981, 6651, 8755, 11188, 6648>>,
       <<-1, 585, 8259, 4711, 640, 1643, 347, 15724>>,
       <<-1, 13645, 5671, 12177, 3530, 16029, 13929, 15317>>,
       <<0, 16346, 6965, 12385, 14957, 4591, 6892, 15218>>,
       <<-1, 15852, 3014, 11181, 14204, 14828, 986, 3763>>,
       <<-1, 143, 16000, 7322, 10105, 7536, 16157, 8158>>,
       <<0, 3780, 16347, 4875, 679, 9815, 6310, 2649>>,
       <<0, 15483, 9008, 1678, 11158, 10320, 7761, 14175>>,
       <<-1, 9505, 2785, 12061, 12131, 13756, 14587, 14392>>,
       <<-1, 2276, 11710, 10866, 8728, 1196, 1283, 12511>>,
       <<0, 9701, 5071, 2331, 234, 4737, 4315, 12647>>,
       <<0, 12166, 5245, 14072, 7132, 7502, 4675, 15124>>,
       <<-1, 4248, 8923, 3272, 1772, 11295, 12995, 91>>,
       <<-1, 6645, 10657, 5487, 13968, 6260, 11745, 2650>>,
       <<0, 14083, 13616, 15863, 13316, 5298, 7552, 16180>>,
       <<0, 6920, 9216, 1841, 11116, 6428, 10550, 9755>>,
       <<-1, 915, 9089, 8819, 15097, 9042, 11150, 788>>,
       <<-1, 12558, 4058, 3092, 12921, 455, 2789, 8389>>,
       <<0, 16233, 14302, 12479, 13258, 16303, 15484, 15088>>,
       <<0, 577, 13124, 14634, 4205, 6273, 2340, 1995>>,
       <<-1, 34, 8600, 8393, 1320, 357, 9546, 2160>>,
       <<0, 2693, 4570, 4083, 7569, 15253, 9021, 2966>>,
       <<0, 15810, 10224, 11944, 15183, 5475, 2264, 11638>>,
       <<-1, 10527, 7377, 7432, 6507, 4717, 12742, 11726>>,
       <<-1, 1745, 1808, 1968, 4821, 7779, 8643, 1166>>,
       <<0, 8785, 6368, 353, 10849, 8615, 10574, 9226>>,
       <<0, 12881, 2869, 8122, 15895, 12383, 15593, 5212>>,
       <<-1, 5021, 7252, 11339, 13554, 15905, 829, 11601>>,
       <<-1, 5776, 2619, 9366, 4841, 8280, 6128, 8181>>,
       <<0, 13484, 14650, 12476, 6570, 4831, 13151, 1405>>,
       <<0, 7909, 14481, 9232, 11284, 10655, 2064, 6855>>,
       <<-1, 1316, 9104, 10174, 7294, 14306, 16111, 12307>>,
       <<-1, 11488, 11420, 11904, 206, 13353, 1913, 12288>>,
       <<0, 16046, 14085, 4567, 2407, 12082, 2413, 6156>>,
       <<0, 1684, 12581, 8733, 6776, 6694, 10495, 9454>>,
       <<-1, 0, 1058, 8645, 5095, 8277, 3339, 7174>>,
       <<0, 1593, 3386, 2104, 12549, 15956, 8432, 13561>>,
       <<0, 16065, 2925, 14581, 15383, 4110, 4087, 10133>>,
       <<-1, 11576, 9719, 900, 3448, 2217, 5686, 6000>>,
       <<-1, 1280, 10669, 9274, 15117, 5168, 7831, 7394>>,
       <<0, 7829, 2805, 11193, 15981, 4483, 16300, 16138>>,
       <<0, 13536, 15516, 13761, 4080, 13306, 7034, 15059>>,
       <<-1, 5846, 7506, 13479, 11180, 6974, 13288, 8386>>,
       <<-1, 4955, 5325, 11193, 15645, 12085, 11466, 9341>>,
       <<0, 12824, 1722, 15763, 16352, 5702, 10862, 2206>>,
       <<0, 8862, 15145, 11610, 12278, 6174, 12984, 15264>>,
       <<-1, 1786, 10937, 7233, 7290, 14207, 10368, 6883>>,
       <<-1, 10441, 9831, 12328, 11148, 15574, 4254, 11831>>,
       <<0, 15786, 3983, 4854, 15840, 1395, 1203, 14326>>,
       <<0, 2784, 116, 6384, 6804, 11681, 12421, 3824>>,
       <<-1, 40, 12348, 2881, 11331, 10632, 15130, 6022>>,
       <<0, 485, 13545, 382, 1839, 8891, 2214, 9615>> >>,
    << <<0, 16246, 749, 14630, 12169, 9591, 4336, 5402>>,
       <<0, 15834, 8294, 5098, 11235, 5293, 7641, 4035>>,
       <<0, 15156, 5108, 8051, 3165, 9167, 9699, 14>>,
       <<0, 14222, 14472, 316, 85, 2906, 15034, 7205>>,
       <<0, 13049, 15397, 11696, 7470, 6599, 8034, 2089>>,
       <<0, 11657, 3830, 10000, 10122, 1238, 5945, 859>>,
       <<0, 10068, 3582, 1260, 2067, 16190, 8087, 34>>,
       <<0, 8309, 10706, 13799, 8996, 4286, 7295, 6586>>,
       <<0, 6411, 2503, 14848, 5112, 4618, 15197, 15274>>,
       <<0, 4404, 11265, 10896, 1065, 8646, 2826, 11014>>,
       <<0, 2324, 768, 13916, 15965, 10552, 3972, 3121>>,
       <<0, 204, 4407, 13508, 7190, 13141, 9646, 1794>>,
       <<-1, 14465, 839, 4020, 2863, 4034, 7382, 2997>>,
       <<-1, 12374, 2436, 14231, 11761, 2262, 11096, 14275>>,
       <<-1, 10350, 12658, 6236, 13281, 4619, 8444, 14631>>,
       <<-1, 8428, 16330, 6122, 16131, 12391, 593, 825>>,
       <<-1, 6641, 3015, 1175, 10453, 356, 4587, 8651>>,
       <<-1, 5017, 7233, 2041, 11286, 14386, 10542, 5789>>,
       <<-1, 3585, 1852, 13752, 3879, 4785, 6556, 9475>>,
       <<-1, 2368, 5233, 12055, 16011, 6127, 8024, 12923>>,
       <<-1, 1387, 9035, 7791, 7115, 15779, 13393, 15374>>,
       <<-1, 659, 5332, 3872, 6741, 8319, 9228, 13914>>,
       <<-1, 195, 14823, 12129, 12142, 10019, 8972, 1747>>,
       <<-1, 5, 1531, 11060, 7823, 9818, 7094, 6626>>,
       <<-1, 90, 1718, 7994, 8941, 14036, 11722, 5055>>,
       <<-1, 449, 8312, 13334, 8236, 2313, 3325, 16011>>,
       <<-1, 1077, 4072, 7641, 3309, 3559, 15069, 11896>>,
       <<-1, 1962, 12406, 5575, 16159, 4743, 13619, 5142>>,
       <<-1, 3091, 1987, 1719, 1923, 14738, 2460, 3767>>,
       <<-1, 4443, 5553, 9332, 2692, 14050, 10232, 13692>>,
       <<-1, 5996, 10465, 7147, 16335, 5982, 4494, 14760>>,
       <<-1, 7724, 14138, 2452, 10909, 7350, 12217, 12840>>,
       <<-1, 9598, 14876, 679, 10457, 10264, 11316, 6110>>,
       <<-1, 11587, 3518, 3781, 4159, 2815, 8987, 8119>>,
       <<-1, 13656, 4914, 931, 14521, 11522, 4457, 5908>>,
       <<-1, 15771, 5241, 6708, 8192, 10590, 15663, 7438>>,
       <<0, 1512, 10772, 6263, 1571, 5753, 9266, 11173>>,
       <<0, 3612, 8548, 5814, 11249, 10171, 3872, 8796>>,
       <<0, 5651, 9023, 221, 13038, 16342, 7149, 11583>>,
       <<0, 7595, 6667, 233, 11496, 12010, 15347, 13293>>,
       <<0, 9411, 5825, 16146, 7866, 498, 1078, 11399>>,
       <<0, 11068, 13368, 5346, 6882, 10763, 1008, 11115>>,
       <<0, 12539, 14354, 11535, 4053, 12037, 14825, 13499>>,
       <<0, 13799, 12507, 2668, 2871, 10726, 9744, 10597>>,
       <<0, 14827, 4276, 2547, 12883, 11860, 2493, 13621>>,
       <<0, 15605, 1078, 6486, 10351, 97, 15553, 16298>>,
       <<0, 16120, 1302, 15607, 2112, 15059, 6113, 7565>>,
       <<0, 16363, 10309, 3061, 15924, 3967, 15110, 10999>>,
       <<0, 16331, 10051, 11090, 14965, 3890, 10459, 2491>>,
       <<0, 16024, 9363, 13597, 15998, 11577, 15203, 14210>>,
       <<0, 15447, 11041, 2075, 10927, 15070, 13985, 12066>>,
       <<0, 14610, 10414, 8239, 1891, 4315, 8691, 959>>,
       <<0, 13527, 9053, 14618, 4399, 15661, 4914, 2063>>,
       <<0, 12216, 10879, 1148, 14738, 1949, 10305, 15355>>,
       <<0, 10700, 743, 4781, 9284, 4360, 6323, 6315>>,
       <<0, 9003, 3878, 7715, 11544, 515, 12252, 11494>>,
       <<0, 7154, 13312, 7664, 1180, 211, 11853, 2749>>,
       <<0, 5185, 14753, 2554, 13892, 3759, 7170, 11409>>,
       <<0, 3129, 10768, 531, 6349, 6489, 12986, 454>>,
       <<0, 1020, 11636, 27, 115, 15432, 3424, 4012>>,
       <<-1, 15278, 9409, 6385, 431, 15047, 8540, 6364>>,
       <<-1, 13171, 883, 1305, 8596, 6044, 15443, 12498>>,
       <<-1, 11117, 10483, 12804, 8449, 7836, 1188, 5028>> >>,
    << <<-1, 9152, 14941, 13038, 12032, 6992, 10816, 6096>>,
       <<-1, 6382, 14580, 903, 9311, 15905, 5423, 1102>>,
       <<0, 16059, 1305, 3729, 4326, 1631, 3265, 15124>>,
       <<-1, 12209, 12150, 10271, 741, 7711, 2237, 2283>>,
       <<-1, 4009, 8898, 6714, 5799, 6501, 10786, 5>>,
       <<0, 15097, 3375, 5881, 1907, 6571, 5916, 14477>>,
       <<-1, 15432, 2218, 5329, 3815, 14490, 7593, 15578>>,
       <<-1, 2127, 98, 2009, 660, 1709, 4906, 10087>>,
       <<0, 13536, 8683, 182, 1417, 410, 6120, 11806>>,
       <<0, 2308, 4638, 5836, 952, 16070, 9271, 4200>>,
       <<-1, 809, 15496, 6263, 6674, 6235, 12259, 15398>>,
       <<0, 11438, 15610, 15607, 5226, 7046, 6955, 11267>>,
       <<0, 5476, 14370, 2425, 884, 5278, 8560, 3672>>,
       <<-1, 110, 9852, 7362, 1207, 1917, 4928, 5133>>,
       <<0, 8887, 10994, 2067, 9815, 10603, 7632, 10123>>,
       <<0, 8428, 3948, 7592, 4634, 7606, 15044, 2391>>,
       <<-1, 56, 11644, 13245, 16371, 13106, 12613, 10630>>,
       <<0, 5983, 14359, 3277, 3134, 13524, 1915, 16176>>,
       <<0, 11045, 5152, 16380, 1802, 6635, 2328, 2680>>,
       <<-1, 650, 6741, 12538, 12209, 8948, 2187, 736>>,
       <<0, 2842, 12166, 192, 4398, 401, 10747, 13338>>,
       <<0, 13224, 4854, 15513, 2600, 12576, 280, 10037>>,
       <<-1, 1868, 2548, 7071, 9482, 7822, 6850, 759>>,
       <<-1, 15972, 14035, 1571, 14636, 9178, 402, 4555>>,
       <<0, 14878, 12471, 5004, 4690, 12992, 14458, 1211>>,
       <<-1, 3661, 10541, 3137, 12274, 2053, 4600, 8018>>,
       <<-1, 12735, 4553, 14099, 13212, 7955, 2671, 15269>>,
       <<0, 15943, 1439, 8486, 14336, 2517, 15728, 6066>>,
       <<-1, 5959, 12118, 11551, 608, 8143, 8868, 5399>>,
       <<-1, 9642, 6864, 10016, 12474, 7021, 15604, 15831>>,
       <<0, 16375, 1012, 13527, 14639, 5894, 15129, 16372>>,
       <<-1, 8671, 4828, 8885, 2166, 5491, 9885, 5967>>,
       <<-1, 6816, 15600, 14588, 14437, 12867, 10458, 8711>>,
       <<0, 16157, 9004, 16102, 425, 5167, 7569, 16065>>,
       <<-1, 11688, 12447, 15658, 13934, 9987, 8015, 11275>>,
       <<-1, 4370, 15473, 15144, 3889, 10987, 1847, 1753>>,
       <<0, 15299, 2924, 4285, 4837, 2651, 261, 15626>>,
       <<-1, 14892, 7417, 7090, 14633, 5751, 6723, 10142>>,
       <<-1, 2401, 6751, 473, 1137, 8587, 5688, 1529>>,
       <<0, 13833, 16287, 2255, 1258, 3297, 4144, 4164>>,
       <<0, 1771, 4998, 16246, 3755, 14510, 364, 13078>>,
       <<-1, 986, 7746, 7561, 4206, 10450, 4560, 10678>>,
       <<0, 11820, 1806, 335, 10574, 671, 1830, 15217>>,
       <<0, 4963, 14778, 7329, 12038, 6781, 2269, 5835>>,
       <<-1, 182, 4057, 4734, 634, 5245, 6194, 8740>>,
       <<0, 9337, 6616, 8947, 8154, 168, 15458, 5721>>,
       <<0, 7959, 10076, 8130, 6727, 8428, 457, 16153>>,
       <<-1, 20, 10397, 12031, 12747, 14750, 13281, 8807>>,
       <<0, 6484, 5682, 4895, 1534, 10911, 3887, 15882>>,
       <<0, 10639, 10236, 16115, 3413, 1749, 5030, 5938>>,
       <<-1, 508, 718, 8265, 6968, 2733, 2834, 8713>>,
       <<0, 3374, 1643, 12557, 9379, 2055, 3769, 8858>>,
       <<0, 12897, 10384, 8964, 15425, 181, 425, 6797>>,
       <<-1, 1625, 2345, 4270, 6037, 13751, 12380, 14827>>,
       <<0, 130, 433, 10077, 11653, 16341, 14660, 2103>>,
       <<0, 14644, 1349, 1642, 11593, 3765, 10803, 8607>>,
       <<-1, 3327, 10237, 7400, 12909, 13662, 2551, 4317>>,
       <<-1, 13264, 13030, 16024, 5021, 15832, 16075, 4423>>,
       <<0, 15809, 11481, 5990, 11108, 11107, 13980, 6739>>,
       <<-1, 5547, 15781, 3728, 12381, 12906, 4818, 9474>>,
       <<-1, 10139, 4614, 6283, 1087, 14548, 7427, 13437>>,
       <<0, 16348, 4211, 1391, 1168, 16007, 589, 2501>>,
       <<-1, 8198, 1518, 6821, 14009, 12312, 2973, 15460>> >>,
    << <<-1, 7261, 7421, 12370, 13766, 4241, 6451, 8824>>,
       <<-1, 10158, 13055, 15942, 6914, 11615, 12862, 11848>>,
       <<0, 16054, 14490, 9983, 5902, 10968, 4612, 3121>>,
       <<-1, 4730, 9987, 15335, 1985, 16040, 3559, 14965>>,
       <<-1, 13306, 3928, 10806, 11496, 6734, 3673, 6790>>,
       <<0, 15080, 12452, 8937, 2756, 15981, 2643, 1910>>,
       <<-1, 2667, 15466, 6566, 10557, 4548, 10642, 13483>>,
       <<0, 193, 5446, 15065, 14439, 13187, 3182, 6365>>,
       <<0, 13500, 12492, 13199, 8273, 9757, 1438, 9269>>,
       <<-1, 1156, 5311, 14179, 3629, 2940, 4964, 3304>>,
       <<0, 3456, 10779, 12136, 4469, 1680, 14595, 5060>>,
       <<0, 11378, 6038, 15608, 6280, 2104, 5323, 13425>>,
       <<-1, 256, 7863, 8574, 11384, 1704, 10121, 1688>>,
       <<0, 6581, 1824, 11617, 8208, 2481, 14842, 1320>>,
       <<0, 8798, 13860, 11840, 11411, 9533, 3634, 9639>>,
       <<-1, 4, 9218, 14339, 9621, 8604, 32, 5842>>,
       <<0, 9441, 2737, 5306, 8157, 2817, 163, 14062>>,
       <<0, 5865, 13560, 2971, 12534, 2307, 2570, 379>>,
       <<-1, 410, 11357, 11688, 175, 8733, 5256, 3872>>,
       <<0, 11921, 15099, 14713, 3152, 4048, 9853, 13599>>,
       <<0, 2697, 2429, 4880, 14313, 10195, 5274, 2048>>,
       <<-1, 1458, 9096, 4456, 14639, 10134, 12023, 13456>>,
       <<0, 13923, 11634, 9300, 12866, 6625, 13712, 10236>>,
       <<-1, 15804, 1807, 7665, 3983, 9898, 1629, 11855>>,
       <<-1, 3106, 827, 3018, 8083, 14779, 8392, 1856>>,
       <<0, 15366, 1805, 13721, 5846, 4733, 2395, 5703>>,
       <<-1, 12550, 6055, 1243, 3012, 3005, 3519, 15037>>,
       <<-1, 5286, 16229, 12544, 2574, 6134, 3710, 2433>>,
       <<0, 16191, 2837, 1033, 9801, 8812, 10934, 12487>>,
       <<-1, 9450, 10581, 9173, 5218, 15765, 12708, 14697>>,
       <<-1, 7913, 12381, 5856, 1291, 7075, 2005, 7394>>,
       <<0, 16365, 12318, 2214, 2043, 14754, 1326, 14511>>,
       <<-1, 6629, 7721, 9181, 1464, 7867, 14719, 2042>>,
       <<-1, 10880, 13351, 6557, 12789, 13169, 1819, 6942>>,
       <<0, 15882, 13639, 15290, 4001, 11197, 7170, 15621>>,
       <<-1, 4200, 3067, 16173, 5461, 11116, 8088, 10399>>,
       <<-1, 14068, 15825, 2772, 11109, 7807, 9887, 10342>>,
       <<0, 14761, 13378, 16188, 11197, 14135, 9485, 15>>,
       <<-1, 2260, 6403, 3368, 10574, 618, 9837, 2082>>,
       <<0, 966, 2030, 7338, 2570, 13936, 10735, 15422>>,
       <<0, 13047, 12142, 14357, 8851, 16038, 11033, 484>>,
       <<-1, 888, 225, 9970, 3185, 6337, 6285, 9892>>,
       <<0, 4208, 7662, 14488, 14306, 14386, 8089, 1691>>,
       <<0, 10809, 7693, 6723, 4102, 3051, 10378, 13339>>,
       <<-1, 138, 3140, 8000, 10569, 2138, 1380, 16241>>,
       <<0, 7281, 12046, 14434, 12673, 946, 13937, 10219>>,
       <<0, 8136, 15154, 9999, 6857, 4740, 5719, 6688>>,
       <<-1, 41, 800, 1377, 6323, 15860, 3052, 11184>>,
       <<0, 10062, 7494, 937, 12290, 6372, 9563, 12445>>,
       <<0, 5137, 7822, 8562, 7813, 15329, 10828, 2924>>,
       <<-1, 600, 7994, 13785, 2189, 10122, 9217, 11985>>,
       <<0, 12438, 15038, 9177, 4342, 3159, 6610, 4979>>,
       <<0, 1931, 10330, 14169, 16049, 10107, 9532, 13316>>,
       <<-1, 1794, 548, 8343, 14996, 4344, 8167, 15102>>,
       <<0, 14315, 10516, 2134, 3892, 15908, 3958, 2664>>,
       <<-1, 15032, 2947, 14029, 15001, 14916, 672, 4924>>,
       <<-1, 3573, 12032, 4596, 6513, 4693, 9474, 63>>,
       <<0, 15617, 3792, 10360, 3698, 3562, 10558, 5570>>,
       <<-1, 11803, 638, 14751, 6904, 4520, 1613, 9919>>,
       <<-1, 5868, 1487, 10114, 14664, 9660, 10774, 8609>>,
       <<0, 16291, 6473, 4217, 9104, 4942, 9292, 2885>>,
       <<-1, 8757, 15389, 1118, 1480, 10237, 11252, 14096>>,
       <<-1, 8584, 15177, 11765, 12860, 1345, 9461, 15793>> >>,
    << <<0, 16311, 786, 8704, 12200, 12264, 16176, 8324>>,
       <<0, 16092, 13790, 1835, 5848, 8304, 3259, 232>>,
       <<0, 15731, 5311, 14992, 13842, 1647, 11679, 7268>>,
       <<0, 15229, 11714, 12792, 5820, 3486, 2599, 13748>>,
       <<0, 14592, 7881, 8056, 13583, 2787, 15866, 2927>>,
       <<0, 13825, 4867, 405, 9053, 8219, 14501, 15511>>,
       <<0, 12934, 16302, 9554, 4501, 16003, 7773, 2890>>,
       <<0, 11929, 8246, 12834, 10713, 4254, 11949, 3841>>,
       <<0, 10817, 12716, 14292, 1633, 15217, 2082, 13952>>,
       <<0, 9609, 11694, 4541, 3382, 7351, 440, 3695>>,
       <<0, 8316, 1216, 1995, 1215, 15276, 5869, 795>>,
       <<0, 6948, 6189, 9392, 7077, 10985, 14100, 8818>>,
       <<0, 5518, 13174, 16337, 4066, 8178, 15181, 3379>>,
       <<0, 4040, 1376, 14564, 13386, 7635, 4508, 1473>>,
       <<0, 2525, 6322, 6687, 10848, 10470, 6834, 6732>>,
       <<0, 988, 3252, 904, 16096, 8871, 7774, 10918>>,
       <<-1, 15826, 3455, 9860, 5158, 15030, 1809, 1387>>,
       <<-1, 14285, 3122, 13116, 10398, 3701, 8927, 3430>>,
       <<-1, 12762, 14102, 10821, 8499, 8114, 7159, 11378>>,
       <<-1, 11272, 12749, 2891, 4800, 4187, 5703, 13040>>,
       <<-1, 9828, 3479, 5629, 6771, 4221, 13952, 6831>>,
       <<-1, 8442, 453, 1159, 1348, 16262, 709, 3046>>,
       <<-1, 7126, 9312, 3848, 13532, 15314, 6058, 14810>>,
       <<-1, 5893, 8995, 9680, 14632, 4402, 3775, 5316>>,
       <<-1, 4753, 15565, 9428, 12075, 15375, 4656, 7444>>,
       <<-1, 3717, 15070, 3726, 809, 14382, 12515, 741>>,
       <<-1, 2794, 11214, 8017, 3998, 80, 10233, 7979>>,
       <<-1, 1992, 7630, 1285, 1841, 14691, 2514, 8887>>,
       <<-1, 1318, 6675, 14961, 4927, 10099, 3359, 14059>>,
       <<-1, 778, 8395, 12754, 2310, 2474, 8575, 12583>>,
       <<-1, 377, 9642, 8386, 10326, 5223, 13174, 12815>>,
       <<-1, 119, 3376, 8357, 4761, 2859, 10569, 4712>>,
       <<-1, 5, 10912, 13146, 10205, 757, 7208, 2323>>,
       <<-1, 37, 16049, 5418, 6369, 2556, 6602, 6798>>,
       <<-1, 215, 14071, 6966, 10279, 14263, 3372, 11412>>,
       <<-1, 537, 11793, 12940, 12790, 4750, 7564, 869>>,
       <<-1, 1000, 11407, 10215, 1402, 10207, 4038, 9459>>,
       <<-1, 1600, 10898, 13412, 12030, 910, 5414, 11440>>,
       <<-1, 2332, 4649, 8415, 15319, 10632, 4274, 15311>>,
       <<-1, 3189, 601, 10505, 370, 6699, 7848, 15785>>,
       <<-1, 4163, 4823, 8699, 6167, 2164, 12193, 1228>>,
       <<-1, 5246, 6239, 1667, 6601, 11210, 4565, 11682>>,
       <<-1, 6428, 10661, 11938, 7584, 10355, 7137, 16045>>,
       <<-1, 7699, 9433, 8409, 10450, 9017, 10823, 2435>>,
       <<-1, 9047, 13729, 6957, 49, 3144, 2668, 10952>>,
       <<-1, 10461, 7056, 10334, 5490, 5032, 3292, 8577>>,
       <<-1, 11927, 12542, 5175, 6106, 15484, 5462, 15551>>,
       <<-1, 13433, 12850, 6262, 8825, 778, 2779, 9775>>,
       <<-1, 14966, 1238, 11151, 16137, 196, 4165, 8271>>,
       <<0, 126, 16283, 13158, 3749, 8085, 11265, 5520>>,
       <<0, 1670, 12800, 186, 8961, 12090, 5819, 2999>>,
       <<0, 3199, 11302, 9376, 11236, 6727, 5566, 10392>>,
       <<0, 4700, 1709, 10215, 11141, 984, 3246, 340>>,
       <<0, 6158, 10864, 11583, 15773, 2756, 6942, 10787>>,
       <<0, 7562, 6182, 4587, 9790, 5248, 7914, 15809>>,
       <<0, 8898, 12230, 13791, 3898, 1476, 12783, 2731>>,
       <<0, 10155, 14252, 13113, 3696, 15817, 1922, 1784>>,
       <<0, 11322, 9052, 13713, 6748, 5107, 6416, 7892>>,
       <<0, 12388, 6631, 4995, 3807, 2640, 2713, 10777>>,
       <<0, 13343, 15316, 1922, 9853, 12867, 10854, 13509>>,
       <<0, 14180, 10379, 10245, 8540, 3650, 12551, 15838>>,
       <<0, 14891, 816, 2487, 4107, 13991, 10932, 14210>>,
       <<0, 15468, 14045, 2076, 3564, 10792, 15268, 5327>> >>,
    << <<0, 15908, 14914, 2317, 5594, 6274, 10907, 3319>>,
       <<0, 14511, 3173, 600, 5933, 2394, 12886, 14289>>,
       <<0, 12271, 14906, 4286, 1597, 6842, 12928, 10839>>,
       <<0, 9320, 15147, 4423, 15422, 9520, 3735, 2550>>,
       <<0, 5829, 6197, 9357, 14467, 3042, 4532, 14345>>,
       <<0, 1999, 12468, 9396, 1903, 9095, 12033, 14204>>,
       <<-1, 14438, 2767, 13045, 13393, 11553, 13161, 7101>>,
       <<-1, 10605, 6947, 10905, 16078, 4399, 16082, 5275>>,
       <<-1, 7107, 13171, 8406, 7068, 6118, 11455, 1624>>,
       <<-1, 4148, 2470, 377, 14256, 12331, 1982, 3920>>,
       <<-1, 1898, 1764, 12178, 14903, 5307, 12584, 6880>>,
       <<-1, 488, 2696, 4667, 5802, 15190, 9754, 9346>>,
       <<-1, 0, 1475, 10064, 12249, 12217, 3124, 4337>>,
       <<-1, 462, 3109, 1369, 1740, 14482, 5175, 14076>>,
       <<-1, 1847, 10887, 1078, 3861, 10380, 5028, 108>>,
       <<-1, 4076, 2695, 16005, 3531, 4480, 11090, 2644>>,
       <<-1, 7018, 7364, 14956, 12455, 8684, 3784, 14944>>,
       <<-1, 10503, 14475, 3774, 2664, 15409, 2828, 16192>>,
       <<-1, 14330, 5423, 4441, 14471, 2140, 9866, 105>>,
       <<0, 1891, 14413, 5471, 15390, 9881, 13534, 2798>>,
       <<0, 5727, 11634, 3443, 8340, 6157, 6347, 10142>>,
       <<0, 9231, 5990, 13019, 16010, 11696, 15450, 15252>>,
       <<0, 12199, 10717, 10889, 13930, 15401, 7115, 14625>>,
       <<0, 14460, 7072, 2486, 1639, 14502, 2356, 8392>>,
       <<0, 15882, 9597, 16263, 11359, 674, 2237, 4633>>,
       <<0, 16383, 10481, 9158, 13268, 2660, 1309, 9307>>,
       <<0, 15934, 8767, 11738, 9867, 9085, 14016, 15364>>,
       <<0, 14561, 5202, 6889, 16074, 570, 7264, 13077>>,
       <<0, 12343, 10252, 12947, 6563, 9904, 1574, 4369>>,
       <<0, 9410, 1203, 14742, 626, 11441, 8558, 1650>>,
       <<0, 5930, 12944, 12949, 12434, 13364, 6753, 10713>>,
       <<0, 2107, 9082, 15721, 7299, 10173, 14755, 14857>>,
       <<-1, 14546, 1514, 5203, 14000, 5284, 14619, 8932>>,
       <<-1, 10707, 3583, 10468, 14538, 10219, 5703, 2751>>,
       <<-1, 7197, 9277, 11983, 16358, 3594, 6147, 7178>>,
       <<-1, 4220, 11060, 2546, 12513, 7472, 2996, 11153>>,
       <<-1, 1949, 3079, 11336, 7263, 14869, 10469, 8383>>,
       <<-1, 514, 13736, 10474, 14218, 5314, 7536, 3609>>,
       <<-1, 0, 13280, 7067, 15220, 11779, 10730, 3278>>,
       <<-1, 436, 14993, 12297, 10302, 4185, 10193, 6041>>,
       <<-1, 1797, 14099, 70, 10688, 1596, 6900, 6829>>,
       <<-1, 4004, 11789, 14481, 8190, 4186, 2205, 7585>>,
       <<-1, 6929, 8306, 5109, 3457, 9986, 4561, 16171>>,
       <<-1, 10402, 9855, 8099, 11248, 7332, 6532, 4046>>,
       <<-1, 14222, 9558, 7222, 34, 6220, 4490, 8943>>,
       <<0, 1783, 14994, 15906, 15469, 13255, 8324, 5515>>,
       <<0, 5625, 12943, 15739, 7063, 3805, 2219, 14465>>,
       <<0, 9141, 6567, 34, 1, 11406, 6169, 5107>>,
       <<0, 12126, 14123, 992, 1628, 1437, 12462, 10877>>,
       <<0, 14409, 552, 5578, 13330, 1744, 14714, 248>>,
       <<0, 15855, 9222, 3886, 15444, 6342, 8730, 12374>>,
       <<0, 16382, 9158, 8120, 387, 15478, 7671, 7595>>,
       <<0, 15959, 7524, 4173, 2002, 1084, 2423, 1918>>,
       <<0, 14610, 13124, 3088, 10826, 3974, 3233, 6481>>,
       <<0, 12414, 13089, 9475, 2338, 4521, 13911, 2192>>,
       <<0, 9498, 13248, 7389, 4368, 14077, 2092, 15313>>,
       <<0, 6031, 15418, 13096, 9812, 2136, 10362, 9486>>,
       <<0, 2215, 4178, 13528, 846, 10324, 13066, 5557>>,
       <<-1, 14654, 1585, 1227, 14545, 4294, 15398, 15059>>,
       <<-1, 10809, 4309, 13204, 12173, 2078, 10725, 343>>,
       <<-1, 7287, 12002, 14631, 9871, 9637, 4450, 9094>>,
       <<-1, 4293, 12030, 1955, 1527, 1051, 1229, 9034>>,
       <<-1, 2000, 14795, 1762, 6857, 3095, 3995, 9486>> >>,
    << <<-1, 542, 3442, 15205, 16363, 11890, 3404, 4370>>,
       <<0, 14251, 771, 15707, 1938, 3684, 14493, 14028>>,
       <<-1, 4666, 15409, 10636, 2289, 4910, 5749, 4845>>,
       <<0, 8407, 8943, 13765, 11547, 16257, 14195, 14864>>,
       <<-1, 11842, 7279, 15259, 3467, 6479, 11386, 4989>>,
       <<0, 374, 15893, 3782, 3162, 4686, 629, 5909>>,
       <<0, 3816, 7110, 11940, 7462, 8366, 15855, 3011>>,
       <<-1, 8628, 12503, 12134, 10764, 14738, 1396, 11374>>,
       <<0, 11180, 12089, 11439, 7427, 2303, 810, 5811>>,
       <<-1, 2517, 12927, 12708, 11011, 15155, 15452, 4332>>,
       <<0, 15633, 14918, 6517, 6096, 3331, 6058, 9703>>,
       <<-1, 17, 2677, 1155, 10998, 3924, 2631, 13585>>,
       <<0, 16016, 7837, 15384, 6918, 4025, 13402, 13111>>,
       <<-1, 1777, 15969, 336, 6376, 2600, 13784, 15963>>,
       <<0, 12228, 13633, 15626, 15994, 8177, 4944, 10876>>,
       <<-1, 7341, 12452, 10619, 4372, 1527, 3633, 15915>>,
       <<0, 5257, 2656, 6177, 781, 7127, 9766, 2524>>,
       <<-1, 15259, 14343, 13529, 12997, 14464, 16245, 7916>>,
       <<-1, 13300, 11200, 8894, 11671, 5476, 6081, 2167>>,
       <<0, 7086, 11132, 4684, 1758, 16322, 14788, 7625>>,
       <<-1, 5763, 145, 13198, 11357, 6196, 14086, 4311>>,
       <<0, 13452, 5293, 15842, 5368, 4062, 10970, 6649>>,
       <<-1, 990, 11862, 4155, 6131, 1356, 6321, 11096>>,
       <<0, 16315, 6264, 14452, 15622, 74, 12072, 8352>>,
       <<-1, 226, 6387, 8151, 14363, 10413, 4440, 15566>>,
       <<0, 14930, 6584, 390, 11066, 10862, 1990, 1255>>,
       <<-1, 3669, 267, 108, 13607, 11509, 14416, 718>>,
       <<0, 9657, 16207, 12845, 7951, 973, 6623, 12230>>,
       <<-1, 10422, 4028, 13427, 3486, 7850, 12137, 3975>>,
       <<0, 1870, 15135, 8687, 341, 6025, 9494, 10189>>,
       <<0, 2343, 12103, 13585, 12177, 5249, 12964, 4123>>,
       <<-1, 9980, 11886, 10668, 6915, 4549, 5168, 12877>>,
       <<0, 10038, 16250, 2467, 14092, 412, 6939, 15595>>,
       <<-1, 3373, 12275, 6101, 4660, 10556, 5084, 9784>>,
       <<0, 15120, 6395, 5405, 4888, 5835, 12374, 4107>>,
       <<-1, 154, 4175, 14475, 5390, 12903, 8081, 3641>>,
       <<0, 16264, 14572, 2658, 10760, 3645, 14755, 6172>>,
       <<-1, 1160, 8239, 11688, 14606, 6136, 3043, 12819>>,
       <<0, 13174, 8119, 7321, 1616, 15304, 10014, 663>>,
       <<-1, 6130, 8131, 9183, 5213, 8769, 3013, 3914>>,
       <<0, 6653, 14014, 1603, 14646, 10494, 10492, 8487>>,
       <<-1, 13770, 3223, 15134, 2484, 10738, 13261, 12856>>,
       <<-1, 14784, 12276, 13579, 15550, 240, 3181, 11631>>,
       <<0, 5706, 7434, 8970, 3338, 3148, 11617, 9349>>,
       <<-1, 6948, 664, 4357, 3285, 5415, 5494, 2103>>,
       <<0, 12540, 15075, 2151, 12143, 10205, 11311, 4>>,
       <<-1, 1568, 2861, 9226, 3398, 6536, 11169, 9777>>,
       <<0, 16110, 1708, 4663, 7385, 4383, 6194, 3578>>,
       <<-1, 45, 14885, 10400, 12942, 2680, 6712, 4393>>,
       <<0, 15484, 11418, 12270, 12507, 14947, 309, 15570>>,
       <<-1, 2777, 9748, 4154, 382, 8056, 12158, 7986>>,
       <<0, 10827, 8775, 3579, 11318, 3016, 1184, 8240>>,
       <<-1, 9051, 16124, 7956, 9275, 13325, 13823, 12440>>,
       <<0, 3351, 3381, 2386, 14183, 6722, 15551, 7835>>,
       <<0, 851, 6749, 6052, 12742, 7256, 5970, 2913>>,
       <<-1, 11386, 5288, 8172, 4764, 370, 93, 330>>,
       <<0, 8813, 2579, 1816, 11315, 5159, 13242, 6756>>,
       <<-1, 4338, 11231, 14853, 2794, 13785, 6316, 14392>>,
       <<0, 14480, 3589, 13208, 6975, 3298, 6558, 4106>>,
       <<-1, 427, 4743, 11906, 6345, 8964, 4385, 10184>>,
       <<0, 16377, 1030, 5244, 13793, 10, 9867, 6403>>,
       <<-1, 670, 8942, 12154, 15812, 11139, 12559, 1826>>,
       <<0, 14009, 13223, 13551, 8725, 5898, 13503, 16188>> >>,
    << <<-1, 5005, 1928, 9047, 12923, 3151, 13907, 5294>>,
       <<-1, 15805, 8804, 5942, 9361, 13427, 14575, 3297>>,
       <<0, 12182, 6235, 11002, 16076, 3364, 14213, 5753>>,
       <<-1, 40, 13878, 254, 7761, 15515, 1715, 7748>>,
       <<0, 10518, 10591, 12255, 4822, 9242, 11003, 9532>>,
       <<0, 1732, 8249, 15270, 11988, 6657, 8329, 7598>>,
       <<-1, 3458, 14172, 10590, 3343, 2330, 12945, 4524>>,
       <<0, 16220, 13360, 14751, 4074, 3549, 14780, 10891>>,
       <<-1, 6778, 615, 3963, 9899, 11125, 14761, 13820>>,
       <<-1, 13506, 1543, 1300, 8019, 4509, 11057, 8294>>,
       <<0, 13603, 7239, 13900, 9539, 7192, 8579, 13185>>,
       <<-1, 366, 6593, 61, 8627, 408, 16351, 15843>>,
       <<0, 8645, 6243, 6092, 11966, 8527, 8666, 12732>>,
       <<0, 4008, 15700, 27, 5884, 6022, 3351, 13823>>,
       <<-1, 2170, 1324, 8400, 759, 3359, 15191, 3218>>,
       <<0, 15734, 8397, 15949, 9609, 12852, 13792, 5117>>,
       <<-1, 8742, 5046, 9586, 1428, 7584, 10583, 6792>>,
       <<-1, 11263, 16037, 2102, 11516, 5963, 8483, 12781>>,
       <<0, 14753, 8565, 14462, 10653, 10485, 4069, 10698>>,
       <<-1, 1011, 459, 13000, 14569, 4610, 11863, 1382>>,
       <<0, 6599, 14742, 5853, 14771, 3041, 9838, 12909>>,
       <<0, 6205, 9086, 4134, 13483, 5185, 4094, 13016>>,
       <<-1, 1164, 7171, 6510, 15763, 3208, 13929, 312>>,
       <<0, 14934, 12753, 7041, 8307, 13211, 3942, 10385>>,
       <<-1, 10858, 13121, 8734, 10108, 14148, 12364, 10503>>,
       <<-1, 9123, 13995, 8589, 9073, 1960, 9716, 6465>>,
       <<0, 15609, 11694, 15967, 7324, 14328, 2462, 8547>>,
       <<-1, 1961, 14468, 8739, 14566, 13327, 12116, 576>>,
       <<0, 4422, 15542, 7232, 15769, 6388, 15750, 3591>>,
       <<0, 8278, 8787, 10968, 3057, 2791, 1870, 5285>>,
       <<-1, 461, 15860, 1237, 5990, 166, 5617, 13123>>,
       <<0, 13837, 8907, 12012, 6711, 7769, 10514, 12071>>,
       <<-1, 13085, 5826, 5966, 8043, 5293, 1087, 539>>,
       <<-1, 7128, 5760, 10839, 14896, 16250, 5589, 2564>>,
       <<0, 16154, 15720, 14781, 11310, 2322, 5514, 10158>>,
       <<-1, 3200, 433, 9674, 5060, 7269, 11305, 1014>>,
       <<0, 2157, 14621, 1091, 1910, 3216, 4699, 13804>>,
       <<0, 10186, 9991, 3276, 8178, 3988, 8503, 12174>>,
       <<-1, 76, 10894, 14701, 14976, 12933, 4457, 15358>>,
       <<0, 12464, 10900, 5187, 3435, 1644, 8158, 7192>>,
       <<-1, 15377, 10146, 9281, 1060, 196, 10928, 14377>>,
       <<-1, 5317, 3626, 13025, 8758, 12722, 11225, 3089>>,
       <<0, 16378, 6532, 5692, 10786, 5774, 13961, 6315>>,
       <<-1, 4700, 13015, 5101, 15326, 375, 10295, 2875>>,
       <<-1, 16233, 13942, 7226, 406, 16139, 9474, 10173>>,
       <<0, 11891, 12552, 12436, 6252, 1064, 8335, 4566>>,
       <<-1, 16, 3338, 13859, 12044, 3063, 1059, 11614>>,
       <<0, 10843, 8044, 2736, 656, 8355, 4723, 15491>>,
       <<0, 1305, 15238, 4313, 4583, 9587, 440, 15966>>,
       <<-1, 3726, 8866, 12217, 5816, 11303, 3502, 6914>>,
       <<0, 16275, 9509, 11195, 6770, 11955, 5361, 6948>>,
       <<-1, 6434, 4777, 8559, 12126, 15163, 6738, 13180>>,
       <<-1, 13928, 13115, 13204, 989, 2715, 13410, 14596>>,
       <<0, 13360, 634, 2016, 7490, 3524, 15230, 15101>>,
       <<-1, 281, 12924, 9495, 15721, 8086, 4004, 3315>>,
       <<0, 9006, 5152, 6186, 12486, 9631, 8755, 10758>>,
       <<0, 3592, 3714, 13582, 3016, 2635, 8287, 12556>>,
       <<-1, 2387, 16341, 4288, 13949, 14071, 9178, 15532>>,
       <<0, 15848, 9057, 10018, 4337, 14993, 13416, 9361>>,
       <<-1, 8365, 16168, 6897, 5151, 1276, 7573, 15569>>,
       <<-1, 11672, 10774, 3990, 12121, 8759, 10511, 12777>>,
       <<0, 14562, 2940, 9911, 10021, 5013, 16208, 6984>>,
       <<-1, 868, 2125, 5857, 2753, 1843, 15709, 15909>> >>,
    << <<0, 6989, 11998, 7574, 125, 5140, 3402, 11228>>,
       <<-1, 5963, 14924, 569, 2304, 448, 7126, 6729>>,
       <<-1, 503, 7262, 2011, 4534, 11562, 8520, 11145>>,
       <<-1, 13254, 2978, 1436, 5407, 13357, 7985, 1049>>,
       <<0, 13210, 1218, 8582, 2032, 2661, 4191, 7623>>,
       <<0, 14401, 2725, 11639, 11131, 15943, 7123, 15496>>,
       <<-1, 15461, 9169, 10973, 1634, 15140, 3150, 14004>>,
       <<-1, 1195, 12644, 5409, 919, 14144, 5457, 13528>>,
       <<-1, 4347, 4170, 4962, 1040, 1170, 1595, 2707>>,
       <<0, 4918, 161, 14243, 7178, 7857, 15191, 1512>>,
       <<0, 16232, 16094, 16199, 13004, 1104, 12544, 7239>>,
       <<0, 8932, 9841, 4858, 8369, 4151, 4784, 12657>>,
       <<-1, 7772, 10800, 4835, 8839, 7315, 9430, 13508>>,
       <<-1, 103, 14240, 5187, 5258, 702, 7459, 9727>>,
       <<-1, 11104, 8214, 502, 6562, 13012, 11347, 6682>>,
       <<0, 11775, 7498, 13586, 5682, 6956, 5040, 1407>>,
       <<0, 15326, 12716, 9606, 11472, 15943, 1402, 190>>,
       <<0, 1301, 15442, 12684, 14059, 6785, 14691, 7684>>,
       <<-1, 2168, 1503, 5004, 9601, 12154, 3175, 3002>>,
       <<-1, 2952, 8074, 5801, 998, 7470, 2056, 10463>>,
       <<0, 2755, 10240, 12892, 448, 1444, 1479, 178>>,
       <<0, 15782, 11688, 9996, 2651, 14236, 15629, 4638>>,
       <<0, 10710, 13083, 9675, 6798, 16127, 10220, 6830>>,
       <<-1, 9740, 2549, 4641, 6981, 11553, 15162, 9440>>,
       <<-1, 4, 6808, 6261, 7400, 10150, 6399, 2057>>,
       <<-1, 9052, 2412, 13544, 2436, 13932, 2505, 4577>>,
       <<0, 10123, 12503, 7816, 13225, 12799, 8783, 7527>>,
       <<0, 15969, 13768, 5543, 6306, 4844, 7572, 1720>>,
       <<0, 3502, 5315, 4846, 11969, 3687, 8835, 2958>>,
       <<-1, 3402, 7844, 1700, 8107, 10641, 7784, 6674>>,
       <<-1, 1805, 5535, 7098, 4956, 2046, 1937, 2693>>,
       <<0, 542, 7223, 11833, 12151, 10956, 9119, 3983>>,
       <<0, 15041, 8089, 15901, 459, 13500, 6397, 2908>>,
       <<0, 12291, 8934, 13861, 9249, 457, 11392, 10778>>,
       <<-1, 11830, 2125, 11047, 3587, 7400, 15425, 3150>>,
       <<-1, 206, 15004, 13404, 4793, 173, 7368, 5647>>,
       <<-1, 7134, 15633, 13327, 16175, 404, 5428, 5279>>,
       <<0, 8285, 7198, 8026, 7169, 12957, 910, 11831>>,
       <<0, 16318, 8260, 14627, 1095, 9476, 7397, 1071>>,
       <<0, 5638, 2322, 4614, 16329, 307, 5508, 13091>>,
       <<-1, 4876, 2902, 4896, 3871, 15955, 4133, 7642>>,
       <<-1, 926, 15354, 13281, 3940, 11372, 2383, 5911>>,
       <<-1, 14703, 4210, 6036, 4767, 11973, 3927, 8099>>,
       <<0, 14022, 16181, 9049, 2806, 11012, 3029, 2912>>,
       <<0, 13645, 11473, 12566, 10053, 8656, 13541, 15836>>,
       <<-1, 14004, 875, 8890, 12964, 7845, 10970, 14141>>,
       <<-1, 707, 10435, 6530, 7737, 10560, 9335, 8071>>,
       <<-1, 5388, 4344, 15264, 9773, 12621, 4544, 7220>>,
       <<0, 6294, 6150, 8321, 14118, 5139, 13269, 0>>,
       <<0, 16366, 5573, 7626, 12508, 4238, 13939, 8816>>,
       <<0, 7670, 347, 9009, 8030, 10129, 15357, 13174>>,
       <<-1, 6562, 320, 16210, 1727, 232, 15489, 7739>>,
       <<-1, 333, 7928, 7849, 4062, 10213, 5567, 15638>>,
       <<-1, 12511, 936, 11510, 13669, 13907, 9744, 16271>>,
       <<0, 12745, 15908, 2278, 5473, 5851, 6310, 5189>>,
       <<0, 14748, 4913, 12784, 6767, 9891, 10773, 7866>>,
       <<-1, 16221, 13941, 3871, 1821, 2618, 8465, 9629>>,
       <<-1, 1497, 5704, 11216, 10412, 12815, 10784, 13240>>,
       <<-1, 3844, 4587, 14541, 13252, 16108, 5529, 9935>>,
       <<0, 4187, 4523, 1513, 6167, 14400, 88, 2610>>,
       <<0, 16112, 7641, 14831, 3945, 9102, 1528, 12286>>,
       <<0, 9560, 8283, 13367, 3033, 16005, 2010, 10801>>,
       <<-1, 8428, 15204, 4582, 11699, 9690, 4941, 8651>> >>,
    << <<-1, 35, 15044, 4295, 12838, 15592, 13464, 706>>,
       <<0, 16240, 7939, 3105, 11879, 13338, 2818, 15465>>,
       <<-1, 322, 5240, 3980, 1265, 678, 13253, 4914>>,
       <<0, 15812, 7414, 1895, 14675, 4843, 681, 12667>>,
       <<-1, 890, 1730, 1699, 9168, 706, 9657, 6146>>,
       <<0, 15107, 6595, 3040, 10595, 1666, 3422, 5090>>,
       <<-1, 1729, 5381, 13267, 13799, 14670, 11931, 3414>>,
       <<0, 14137, 11245, 8236, 15083, 8345, 12455, 2485>>,
       <<-1, 2825, 4688, 8108, 10939, 5036, 15260, 9181>>,
       <<0, 12920, 4791, 8736, 7189, 12456, 308, 13516>>,
       <<-1, 4158, 12756, 7896, 5205, 4341, 14793, 8287>>,
       <<0, 11476, 8982, 14768, 3927, 561, 3645, 7226>>,
       <<-1, 5706, 7280, 4764, 14606, 9172, 12738, 5840>>,
       <<0, 9831, 12234, 12148, 14263, 2767, 13370, 4357>>,
       <<-1, 7441, 2784, 1417, 1871, 15891, 11609, 13953>>,
       <<0, 8014, 11519, 13934, 3507, 4828, 7558, 12799>>,
       <<-1, 9332, 9252, 1550, 2502, 6931, 586, 4818>>,
       <<0, 6057, 4097, 13537, 3324, 11372, 13015, 260>>,
       <<-1, 11347, 8083, 10564, 16048, 2848, 5295, 4707>>,
       <<0, 3993, 11146, 1463, 14884, 408, 12202, 7361>>,
       <<-1, 13450, 10756, 376, 10822, 10601, 16012, 11991>>,
       <<0, 1860, 2380, 14054, 13246, 10309, 14063, 12827>>,
       <<-1, 15605, 3420, 8385, 7814, 14569, 6598, 13271>>,
       <<-1, 16078, 368, 8443, 3141, 1143, 8763, 4025>>,
       <<0, 1389, 6630, 1920, 8405, 5752, 9229, 2563>>,
       <<-1, 13917, 4261, 2624, 4790, 11267, 9237, 6608>>,
       <<0, 3533, 4253, 11539, 14595, 2322, 11018, 247>>,
       <<-1, 11799, 11672, 4703, 10481, 3937, 9921, 1100>>,
       <<0, 5615, 3530, 12128, 4439, 16109, 5001, 6455>>,
       <<-1, 9762, 7811, 6940, 2096, 736, 5602, 10807>>,
       <<0, 7598, 13083, 10463, 16043, 12525, 1333, 5151>>,
       <<-1, 7841, 3988, 1166, 7668, 3187, 15687, 5739>>,
       <<0, 9449, 4234, 13860, 2442, 16015, 10905, 14586>>,
       <<-1, 6069, 10983, 8100, 8281, 1884, 12353, 5663>>,
       <<0, 11134, 2901, 4273, 1873, 8605, 11686, 10403>>,
       <<-1, 4478, 13005, 13528, 1600, 4869, 3883, 10191>>,
       <<0, 12624, 595, 4031, 12764, 6931, 7109, 7638>>,
       <<-1, 3096, 7933, 12044, 9564, 10159, 15380, 13608>>,
       <<0, 13892, 12049, 3578, 6880, 14019, 3634, 5854>>,
       <<-1, 1946, 15700, 11960, 8833, 5490, 5687, 12554>>,
       <<0, 14918, 787, 6302, 3632, 1639, 9479, 7718>>,
       <<-1, 1050, 5808, 3772, 12404, 12251, 796, 13835>>,
       <<0, 15682, 193, 6185, 16261, 4425, 267, 11250>>,
       <<-1, 422, 6233, 3170, 4327, 6540, 3613, 7991>>,
       <<0, 16171, 3978, 425, 12208, 7582, 2942, 5822>>,
       <<-1, 74, 615, 9097, 6783, 12953, 12466, 5706>>,
       <<0, 16377, 2788, 15333, 15954, 8653, 3505, 10236>>,
       <<-1, 11, 7020, 7705, 13300, 7194, 14108, 12436>>,
       <<0, 16296, 3054, 9530, 5305, 5815, 5382, 4179>>,
       <<-1, 235, 10650, 11065, 4751, 330, 5589, 10588>>,
       <<0, 15929, 11635, 13257, 9040, 15911, 11833, 10029>>,
       <<-1, 742, 12683, 10815, 14614, 10677, 15775, 353>>,
       <<0, 15284, 2650, 9993, 6708, 14798, 9903, 2494>>,
       <<-1, 1523, 15015, 2662, 7530, 3773, 16127, 6588>>,
       <<0, 14370, 13935, 4924, 13661, 158, 307, 4880>>,
       <<-1, 2565, 6425, 3845, 15659, 2620, 7476, 7458>>,
       <<0, 13205, 12726, 6414, 13857, 13188, 2684, 11396>>,
       <<-1, 3848, 15658, 3387, 12771, 16189, 13314, 1349>>,
       <<0, 11809, 5756, 233, 16080, 913, 8105, 4433>>,
       <<-1, 5352, 1971, 11996, 7016, 6334, 3929, 13315>>,
       <<0, 10206, 625, 5966, 6139, 11385, 7592, 3926>>,
       <<-1, 7048, 9047, 2778, 10954, 9761, 1798, 5527>>,
       <<0, 8423, 15166, 13017, 3633, 1115, 692, 9535>> >>,
    << <<-1, 8908, 8708, 3684, 9806, 3590, 16364, 3687>>,
       <<-1, 6821, 9994, 5795, 14223, 3374, 12731, 659>>,
       <<0, 16201, 7581, 16061, 230, 8934, 7741, 214>>,
       <<-1, 11162, 396, 12429, 8842, 10993, 3885, 5104>>,
       <<-1, 4947, 12472, 14684, 13535, 9456, 4668, 8302>>,
       <<0, 15657, 15047, 9891, 14294, 178, 3420, 6442>>,
       <<-1, 13531, 14335, 5069, 15084, 16111, 14980, 12661>>,
       <<-1, 3328, 12110, 2828, 12561, 4802, 10936, 6947>>,
       <<0, 14765, 7839, 453, 8660, 13247, 1846, 14925>>,
       <<-1, 15965, 4551, 14499, 5849, 3682, 5531, 15648>>,
       <<-1, 2000, 10145, 13508, 10807, 10375, 10979, 12302>>,
       <<0, 13544, 467, 4904, 3376, 5723, 15225, 12754>>,
       <<0, 2024, 177, 3844, 5595, 3851, 10030, 10905>>,
       <<-1, 992, 16306, 8390, 3522, 7936, 16101, 4258>>,
       <<0, 12020, 12868, 9837, 13626, 3803, 2388, 13454>>,
       <<0, 4421, 10551, 15029, 11212, 5046, 4869, 5023>>,
       <<-1, 328, 5234, 355, 7300, 210, 3941, 8706>>,
       <<0, 10229, 11316, 1404, 1885, 14812, 10998, 9857>>,
       <<0, 6720, 12329, 4377, 2293, 13597, 11661, 8028>>,
       <<-1, 21, 6592, 8514, 727, 3665, 4956, 13212>>,
       <<0, 8210, 10716, 11733, 2678, 11805, 15885, 67>>,
       <<0, 8870, 1747, 7943, 500, 5391, 13883, 9375>>,
       <<-1, 79, 1357, 9769, 3255, 13605, 5741, 15346>>,
       <<0, 6008, 10889, 3155, 1693, 11463, 14241, 4191>>,
       <<0, 10821, 13332, 4213, 2017, 15548, 8620, 11508>>,
       <<-1, 500, 1239, 9487, 7861, 1117, 1586, 3750>>,
       <<0, 3672, 12907, 10558, 164, 12487, 13748, 12814>>,
       <<0, 12532, 6309, 2721, 15180, 12678, 6426, 9978>>,
       <<-1, 1275, 0, 12253, 5785, 13452, 12727, 13044>>,
       <<0, 1255, 1189, 764, 12446, 6631, 1862, 7035>>,
       <<0, 13963, 11552, 4797, 2921, 10727, 7626, 3522>>,
       <<-1, 2386, 9647, 16321, 14665, 331, 7037, 9518>>,
       <<-1, 15193, 6411, 8195, 7348, 4271, 15091, 4323>>,
       <<0, 15083, 14427, 4062, 13030, 11807, 7965, 4021>>,
       <<-1, 3810, 1200, 10313, 4566, 13196, 15991, 16199>>,
       <<-1, 12774, 3926, 12754, 1372, 13966, 12172, 5385>>,
       <<0, 15867, 15586, 9333, 14670, 10106, 300, 6309>>,
       <<-1, 5513, 12036, 13705, 4172, 11331, 16134, 10013>>,
       <<-1, 10435, 8553, 6200, 8330, 12086, 10395, 9634>>,
       <<0, 16298, 7314, 732, 13269, 10876, 11572, 10724>>,
       <<-1, 7459, 10017, 5676, 3137, 9345, 15060, 8147>>,
       <<-1, 8229, 5745, 6273, 6890, 10964, 16185, 15988>>,
       <<0, 16365, 12670, 14910, 2872, 13500, 1332, 4482>>,
       <<-1, 9604, 5648, 4077, 10097, 12411, 3569, 3219>>,
       <<-1, 6204, 14487, 10339, 4422, 15194, 3029, 12992>>,
       <<0, 16068, 7077, 13316, 9970, 11617, 11681, 11496>>,
       <<-1, 11900, 2374, 2778, 15026, 14026, 13070, 15953>>,
       <<-1, 4407, 3813, 1918, 5306, 1040, 15555, 12092>>,
       <<0, 15413, 782, 8136, 13308, 260, 8460, 4428>>,
       <<-1, 14295, 14025, 1484, 5032, 7607, 12980, 13389>>,
       <<-1, 2876, 7406, 8333, 14972, 12170, 9371, 5646>>,
       <<0, 14414, 3673, 179, 12915, 14269, 11464, 9753>>,
       <<0, 354, 1572, 937, 10001, 11092, 6813, 7709>>,
       <<-1, 1646, 10676, 12170, 14652, 2065, 11612, 16112>>,
       <<0, 13094, 3562, 5555, 15508, 7118, 14878, 2154>>,
       <<0, 2788, 7303, 10387, 81, 3897, 8655, 6271>>,
       <<-1, 745, 3840, 8902, 12481, 1510, 10074, 14161>>,
       <<0, 11482, 7215, 3952, 13150, 13772, 10968, 16186>>,
       <<0, 5160, 10852, 14076, 3437, 723, 7343, 12779>>,
       <<-1, 192, 4686, 5410, 14853, 8780, 2062, 3983>>,
       <<0, 9614, 13226, 5900, 10044, 9782, 3549, 7589>>,
       <<0, 7417, 14536, 260, 3645, 7310, 6751, 13404>>,
       <<-1, 0, 2089, 7153, 15417, 11601, 16306, 10191>> >>,
    << <<0, 7532, 15292, 14007, 240, 4810, 13331, 15042>>,
       <<-1, 6926, 14587, 4449, 13041, 1581, 5284, 629>>,
       <<-1, 154, 13184, 9936, 2869, 662, 15543, 580>>,
       <<-1, 10917, 9718, 6204, 3504, 2492, 10802, 8515>>,
       <<0, 11202, 9410, 1466, 12988, 11680, 13429, 8724>>,
       <<0, 15767, 11574, 9496, 13574, 8299, 9185, 13629>>,
       <<0, 3296, 9523, 2927, 7123, 698, 7306, 7041>>,
       <<-1, 3647, 10759, 6888, 4787, 1589, 9427, 5338>>,
       <<-1, 1375, 12217, 2337, 6170, 466, 11581, 9113>>,
       <<-1, 15319, 8847, 15860, 12740, 2063, 14237, 1158>>,
       <<0, 14029, 7090, 13741, 16274, 5712, 5676, 2665>>,
       <<0, 13965, 3117, 12822, 10328, 15370, 12975, 8382>>,
       <<-1, 15196, 3662, 369, 12720, 15748, 3821, 1767>>,
       <<-1, 1326, 9711, 14066, 5580, 492, 14487, 12238>>,
       <<-1, 3725, 12694, 2698, 10507, 2808, 5014, 525>>,
       <<0, 3417, 9297, 2667, 8521, 13827, 6526, 5024>>,
       <<0, 15800, 13777, 14520, 7678, 7419, 3073, 15716>>,
       <<0, 11112, 931, 12371, 2888, 12747, 14540, 4780>>,
       <<-1, 10801, 3662, 13569, 2613, 15561, 12826, 5323>>,
       <<-1, 138, 5158, 412, 8277, 3321, 7451, 14270>>,
       <<-1, 7028, 1584, 2133, 985, 4479, 2499, 15388>>,
       <<0, 7642, 7984, 13820, 11348, 10579, 5113, 1352>>,
       <<0, 16383, 8744, 6978, 14513, 1633, 8636, 13815>>,
       <<0, 7422, 15575, 14988, 6136, 13096, 8318, 3038>>,
       <<-1, 6826, 3641, 12849, 8850, 1748, 10080, 5512>>,
       <<-1, 172, 3577, 15897, 12505, 350, 2856, 8795>>,
       <<-1, 11034, 4487, 11630, 13573, 16209, 6658, 5374>>,
       <<0, 11292, 7441, 4802, 598, 15690, 8278, 3354>>,
       <<0, 15733, 11050, 14071, 4563, 5257, 5558, 1673>>,
       <<0, 3175, 6674, 15034, 4514, 4208, 11632, 13738>>,
       <<-1, 3570, 4318, 2401, 3991, 14513, 9416, 256>>,
       <<-1, 1425, 12334, 9868, 12153, 14578, 8076, 13592>>,
       <<-1, 15442, 15026, 9697, 2990, 3241, 300, 14948>>,
       <<0, 14092, 14364, 8752, 3262, 9303, 6584, 2265>>,
       <<0, 13900, 2505, 4524, 11825, 10832, 14891, 12128>>,
       <<-1, 15072, 15967, 12387, 10251, 16134, 9870, 11221>>,
       <<-1, 1278, 4864, 9638, 3780, 2675, 14718, 4991>>,
       <<-1, 3804, 10049, 8670, 7621, 14301, 8799, 8905>>,
       <<0, 3538, 5884, 696, 6354, 14439, 5539, 11895>>,
       <<0, 15833, 1245, 14395, 9585, 8510, 2467, 4808>>,
       <<0, 11020, 14858, 11521, 1875, 4481, 3050, 14588>>,
       <<-1, 10685, 2813, 9514, 638, 6337, 4056, 15600>>,
       <<-1, 122, 12281, 9902, 7097, 2250, 6408, 12744>>,
       <<-1, 7129, 13689, 16032, 8274, 6583, 14652, 8906>>,
       <<0, 7751, 9933, 11706, 5180, 11434, 6192, 11057>>,
       <<0, 16382, 2210, 2271, 15467, 8257, 3146, 12136>>,
       <<0, 7312, 8936, 9655, 1473, 3188, 11140, 3941>>,
       <<-1, 6726, 1609, 8974, 7892, 12681, 6687, 15143>>,
       <<-1, 190, 9089, 14375, 6857, 1962, 14167, 310>>,
       <<-1, 11151, 4246, 154, 10109, 11513, 11916, 16160>>,
       <<0, 11381, 11325, 8961, 10011, 3366, 13366, 2775>>,
       <<0, 15698, 12238, 7551, 4216, 4662, 7268, 923>>,
       <<0, 3054, 865, 6261, 2455, 9787, 11730, 10613>>,
       <<-1, 3493, 9826, 8474, 13206, 6642, 16366, 11514>>,
       <<-1, 1476, 10017, 9873, 8080, 6224, 15098, 8488>>,
       <<-1, 15566, 5698, 13709, 13225, 351, 2172, 220>>,
       <<0, 14155, 8495, 11523, 11851, 5637, 6645, 11780>>,
       <<0, 13834, 5313, 15908, 1558, 5430, 8598, 9499>>,
       <<-1, 14949, 13112, 1740, 12932, 14734, 13282, 6050>>,
       <<-1, 1230, 14104, 6076, 9021, 10825, 5844, 2115>>,
       <<-1, 3884, 2751, 16249, 5900, 11955, 7443, 274>>,
       <<0, 3658, 15555, 2812, 1259, 2371, 9321, 908>>,
       <<0, 15864, 6716, 8117, 3358, 7142, 2493, 7145>> >>,
    << <<0, 10929, 2123, 15354, 7274, 9264, 12035, 13449>>,
       <<-1, 14580, 13029, 2459, 9796, 3541, 15353, 8204>>,
       <<-1, 3049, 2862, 13429, 11606, 14745, 588, 13731>>,
       <<-1, 396, 15030, 13767, 3671, 4191, 6052, 3805>>,
       <<-1, 8390, 1676, 15655, 10131, 15507, 7934, 5883>>,
       <<0, 5322, 4025, 13462, 8073, 8026, 2862, 12271>>,
       <<0, 15094, 6949, 13369, 11369, 8040, 12500, 13206>>,
       <<0, 14815, 9203, 8176, 16245, 3919, 15513, 10651>>,
       <<0, 4671, 5679, 14045, 8986, 10854, 9311, 10777>>,
       <<-1, 7800, 9599, 2844, 13713, 10991, 11211, 7489>>,
       <<-1, 261, 5397, 707, 5953, 5965, 8935, 11905>>,
       <<-1, 3457, 13110, 15350, 7546, 8229, 15577, 10709>>,
       <<-1, 15261, 8840, 15903, 11399, 7455, 8459, 686>>,
       <<0, 11428, 11474, 13748, 1550, 11487, 5127, 10654>>,
       <<0, 16369, 12190, 13132, 9059, 15373, 8234, 5820>>,
       <<0, 10410, 8843, 2719, 9948, 14532, 7620, 6878>>,
       <<-1, 13903, 3094, 990, 2408, 13817, 15023, 11418>>,
       <<-1, 2663, 12367, 7223, 5865, 7931, 13749, 14475>>,
       <<-1, 560, 5350, 2927, 8432, 8315, 3574, 14870>>,
       <<-1, 8993, 8683, 10950, 2121, 2778, 11270, 7971>>,
       <<0, 5963, 14464, 10395, 6933, 14095, 5879, 11994>>,
       <<0, 15347, 309, 15527, 4807, 15415, 5564, 11576>>,
       <<0, 14510, 15021, 14505, 3529, 10362, 9212, 6700>>,
       <<0, 4012, 5217, 1425, 5508, 15032, 7071, 11241>>,
       <<-1, 7226, 106, 8790, 12226, 6931, 10047, 4270>>,
       <<-1, 153, 13082, 10717, 619, 14789, 3357, 7133>>,
       <<-1, 3888, 15077, 1926, 12151, 13235, 1339, 8581>>,
       <<-1, 15944, 3888, 3774, 15648, 714, 8298, 4357>>,
       <<0, 11908, 6268, 2924, 13907, 11775, 14071, 14779>>,
       <<0, 16327, 17, 10967, 11091, 5113, 7991, 3601>>,
       <<0, 9873, 13650, 8037, 13639, 3869, 8309, 369>>,
       <<-1, 13229, 14739, 8577, 16126, 10600, 3060, 15952>>,
       <<-1, 2302, 3461, 13766, 2259, 6563, 11330, 6406>>,
       <<-1, 751, 4463, 15712, 14088, 14225, 9123, 14204>>,
       <<-1, 9609, 13414, 7604, 9611, 6207, 15253, 1212>>,
       <<0, 6595, 2318, 397, 14775, 4388, 5434, 295>>,
       <<0, 15572, 14849, 15518, 6590, 10794, 7664, 14935>>,
       <<0, 14181, 322, 15864, 6198, 11400, 4870, 7612>>,
       <<0, 3346, 5043, 10407, 14092, 9720, 720, 1548>>,
       <<-1, 6667, 5965, 6129, 15684, 4051, 8308, 2485>>,
       <<-1, 74, 8385, 9500, 184, 11880, 13177, 8175>>,
       <<-1, 4341, 12853, 5346, 120, 496, 14305, 6729>>,
       <<0, 243, 11473, 15472, 2491, 13718, 14342, 12985>>,
       <<0, 12367, 5595, 5257, 13049, 11232, 1200, 14588>>,
       <<0, 16255, 13851, 4684, 12165, 13937, 7497, 3340>>,
       <<0, 9319, 15464, 6826, 7661, 4500, 15078, 2980>>,
       <<-1, 12562, 1626, 4436, 12300, 14161, 3000, 16332>>,
       <<-1, 1965, 2838, 4894, 10077, 6248, 12327, 15960>>,
       <<-1, 969, 6927, 15685, 3699, 9688, 354, 6568>>,
       <<-1, 10237, 14681, 13130, 11219, 12235, 11202, 4699>>,
       <<0, 7214, 15123, 10325, 9753, 7593, 6170, 12139>>,
       <<0, 15771, 11361, 5601, 3512, 16167, 14046, 1446>>,
       <<0, 13826, 7280, 11976, 9848, 6740, 246, 2438>>,
       <<0, 2674, 7764, 11566, 14613, 11133, 8445, 9628>>,
       <<-1, 6125, 10335, 10211, 15617, 8289, 3685, 4757>>,
       <<-1, 23, 9950, 7071, 16174, 6916, 3270, 8709>>,
       <<-1, 4815, 9911, 9142, 14697, 3958, 13352, 9656>>,
       <<0, 926, 12111, 5043, 5708, 12641, 16092, 3221>>,
       <<0, 12804, 12754, 8047, 3004, 10839, 2958, 1151>>,
       <<0, 16156, 6568, 7074, 1959, 5208, 10734, 11350>>,
       <<0, 8749, 13693, 5910, 16104, 9702, 11737, 14762>>,
       <<-1, 11900, 15562, 8784, 7786, 12046, 10629, 73>>,
       <<-1, 1653, 3722, 6554, 14367, 10731, 11707, 4122>> >>,
    << <<-1, 1214, 6522, 4900, 14739, 11459, 2622, 14374>>,
       <<0, 11706, 7084, 3985, 14437, 10849, 8054, 11255>>,
       <<-1, 9876, 1991, 7681, 8370, 6869, 6719, 14807>>,
       <<0, 344, 9566, 8269, 9379, 3444, 945, 10533>>,
       <<0, 5869, 12983, 9251, 4759, 180, 7571, 9670>>,
       <<-1, 5169, 16067, 13927, 3668, 13344, 16049, 2905>>,
       <<0, 14895, 14057, 8457, 10608, 13911, 5934, 8540>>,
       <<-1, 14, 8100, 1946, 2413, 6277, 13036, 3852>>,
       <<0, 15416, 8285, 9370, 3039, 2704, 8049, 5304>>,
       <<-1, 4205, 14206, 14805, 9325, 4094, 10879, 10723>>,
       <<0, 7134, 7370, 241, 14141, 8741, 107, 1144>>,
       <<-1, 15350, 14057, 9074, 5657, 2077, 15584, 7860>>,
       <<-1, 11162, 11127, 8971, 15392, 9365, 12573, 1545>>,
       <<0, 10701, 12531, 4474, 13011, 244, 9377, 13568>>,
       <<-1, 1788, 3959, 7848, 10887, 1630, 9856, 6900>>,
       <<0, 16326, 787, 11463, 5419, 5353, 2852, 13748>>,
       <<-1, 747, 14212, 5105, 11698, 1414, 1979, 14742>>,
       <<0, 12628, 4688, 11230, 8458, 3211, 15921, 14047>>,
       <<-1, 8635, 9863, 8633, 5418, 6437, 15188, 152>>,
       <<0, 1719, 14288, 14047, 7955, 10313, 12904, 11582>>,
       <<0, 4563, 10009, 9802, 5422, 7435, 6602, 15638>>,
       <<-1, 6213, 6956, 12347, 12457, 7972, 7181, 14219>>,
       <<0, 14269, 13662, 3925, 16076, 11496, 9468, 15967>>,
       <<-1, 130, 4844, 12512, 2660, 10285, 12661, 12677>>,
       <<0, 15828, 1537, 5493, 3058, 11531, 1508, 14715>>,
       <<-1, 3327, 14814, 6324, 11175, 5256, 7025, 7976>>,
       <<0, 8348, 10430, 4846, 3643, 11260, 490, 1497>>,
       <<-1, 13980, 7221, 12007, 10843, 15004, 3361, 4267>>,
       <<-1, 12486, 2842, 12905, 8174, 4145, 13927, 9223>>,
       <<0, 9621, 6402, 9929, 3640, 11192, 1045, 11019>>,
       <<-1, 2465, 5549, 2852, 15198, 3922, 6263, 5070>>,
       <<0, 16152, 9867, 10638, 12150, 1583, 2732, 2809>>,
       <<-1, 391, 15566, 3465, 9837, 6819, 1110, 14950>>,
       <<0, 13460, 13186, 3293, 4044, 11404, 12162, 14441>>,
       <<-1, 7449, 14684, 11555, 397, 8025, 6092, 13337>>,
       <<0, 3082, 16279, 6843, 5491, 4931, 4265, 12702>>,
       <<0, 3225, 2383, 9437, 9734, 9266, 7351, 11002>>,
       <<-1, 7328, 13390, 7435, 3096, 8162, 2307, 4512>>,
       <<0, 13542, 14122, 5661, 4611, 6704, 13842, 13122>>,
       <<-1, 361, 1296, 3874, 11289, 13948, 4931, 1024>>,
       <<0, 16127, 11644, 2629, 12296, 6460, 8211, 16004>>,
       <<-1, 2542, 4961, 9434, 6660, 6782, 11113, 7695>>,
       <<0, 9503, 12507, 8036, 13419, 9733, 13420, 11880>>,
       <<-1, 12627, 439, 10942, 6096, 12486, 12316, 8231>>,
       <<-1, 13837, 3963, 1738, 7149, 3423, 13919, 752>>,
       <<0, 8472, 15613, 12293, 15864, 8330, 8198, 3792>>,
       <<-1, 3240, 14733, 3855, 4325, 529, 16219, 9687>>,
       <<0, 15864, 14574, 14493, 10928, 3232, 7974, 5549>>,
       <<-1, 149, 2684, 3112, 3156, 5673, 111, 8383>>,
       <<0, 14198, 1620, 11099, 9675, 2146, 5853, 12039>>,
       <<-1, 6327, 6426, 14061, 14363, 12930, 13799, 10637>>,
       <<0, 4424, 5003, 2668, 13418, 11588, 10358, 7900>>,
       <<0, 1863, 14166, 12958, 1269, 4871, 4569, 11394>>,
       <<-1, 8508, 4394, 10645, 2910, 11126, 1198, 3345>>,
       <<0, 12720, 1392, 11052, 3093, 12424, 2088, 12926>>,
       <<-1, 705, 3473, 13958, 15063, 6691, 9289, 6994>>,
       <<0, 16313, 3879, 4916, 6060, 5774, 12092, 9960>>,
       <<-1, 1854, 10166, 11344, 14008, 9505, 4730, 14176>>,
       <<0, 10591, 10789, 15781, 401, 5269, 13382, 5248>>,
       <<-1, 11300, 3121, 3918, 9731, 8341, 15912, 9806>>,
       <<-1, 15206, 5350, 7906, 613, 5266, 6303, 7756>>,
       <<0, 7264, 9433, 1028, 2492, 7686, 2421, 15498>>,
       <<-1, 4109, 7157, 3482, 2467, 33, 7710, 7615>> >>,
    << <<0, 15464, 15488, 6766, 7031, 1368, 944, 10197>>,
       <<0, 12810, 14572, 9773, 7778, 16188, 2825, 16196>>,
       <<0, 8719, 9649, 7255, 12594, 9460, 5515, 11613>>,
       <<0, 3650, 720, 8584, 14595, 5290, 7824, 7278>>,
       <<-1, 14555, 51, 12046, 16283, 10467, 3572, 14214>>,
       <<-1, 9281, 2559, 1591, 4260, 8189, 9898, 1991>>,
       <<-1, 4804, 2821, 14552, 5004, 11741, 12710, 2688>>,
       <<-1, 1626, 5258, 1185, 7923, 11436, 10219, 7928>>,
       <<-1, 104, 2017, 12605, 326, 9603, 5061, 11353>>,
       <<-1, 408, 5786, 14720, 15465, 14664, 14121, 12236>>,
       <<-1, 2504, 14413, 6048, 15159, 15944, 15786, 2889>>,
       <<-1, 6158, 8108, 3923, 16099, 14805, 364, 14691>>,
       <<-1, 10959, 4951, 6641, 15314, 15161, 11025, 8310>>,
       <<-1, 16368, 11510, 2662, 8596, 15973, 14573, 14730>>,
       <<0, 5395, 13419, 5764, 14192, 13313, 3572, 3504>>,
       <<0, 10201, 9543, 3727, 9628, 8272, 10962, 14122>>,
       <<0, 13862, 13723, 3852, 10688, 3914, 882, 9607>>,
       <<0, 15968, 13612, 3036, 15824, 3966, 12249, 12377>>,
       <<0, 16283, 4788, 4901, 11281, 6333, 12755, 9639>>,
       <<0, 14770, 15445, 1390, 7905, 5789, 12937, 9226>>,
       <<0, 11601, 7398, 6116, 7984, 10132, 15800, 490>>,
       <<0, 7130, 6583, 6045, 11467, 803, 2259, 5035>>,
       <<0, 1859, 6510, 4864, 3345, 2337, 7170, 11502>>,
       <<-1, 12763, 12917, 9908, 12956, 14379, 4515, 4349>>,
       <<-1, 7690, 5381, 9176, 11429, 2151, 1602, 2917>>,
       <<-1, 3592, 3364, 3767, 11966, 10683, 14114, 1068>>,
       <<-1, 929, 3023, 15554, 5875, 3480, 5264, 2783>>,
       <<-1, 0, 468, 417, 15456, 5264, 15834, 6243>>,
       <<-1, 908, 16034, 12586, 10112, 3275, 3513, 13513>>,
       <<-1, 3554, 990, 8011, 7022, 9193, 9842, 13847>>,
       <<-1, 7638, 8585, 11827, 14537, 2796, 15018, 4036>>,
       <<-1, 12704, 2233, 14444, 13270, 5711, 14396, 8221>>,
       <<0, 1798, 9665, 12095, 7389, 9343, 12213, 11233>>,
       <<0, 7075, 4276, 10435, 9865, 12739, 6200, 11857>>,
       <<0, 11558, 2680, 4445, 5372, 10101, 15695, 13839>>,
       <<0, 14744, 5963, 10394, 390, 7545, 12796, 5508>>,
       <<0, 16276, 6630, 980, 15892, 1241, 13899, 7812>>,
       <<0, 15982, 6669, 4860, 11341, 5775, 3065, 2722>>,
       <<0, 13895, 5809, 1380, 13524, 8693, 15066, 15535>>,
       <<0, 10249, 6424, 1469, 15927, 8906, 14339, 5699>>,
       <<0, 5453, 9135, 14965, 6107, 12029, 15316, 3417>>,
       <<0, 45, 14620, 10461, 3414, 3687, 9934, 8741>>,
       <<-1, 11017, 1286, 2702, 4130, 7932, 9442, 6225>>,
       <<-1, 6206, 6156, 2334, 8279, 12101, 5826, 137>>,
       <<-1, 2537, 8084, 2825, 398, 401, 2059, 540>>,
       <<-1, 422, 669, 1021, 7849, 5629, 11905, 15334>>,
       <<-1, 97, 5719, 15231, 14779, 666, 8548, 4908>>,
       <<-1, 1599, 13847, 10677, 8244, 7077, 15725, 9126>>,
       <<-1, 4760, 15812, 2941, 4411, 3402, 10729, 12546>>,
       <<-1, 9226, 1065, 8833, 3655, 4000, 10050, 2144>>,
       <<-1, 14494, 3417, 14779, 6349, 9682, 12152, 5665>>,
       <<0, 3590, 6005, 7150, 13082, 1410, 12536, 2975>>,
       <<0, 8667, 11858, 12286, 12138, 8189, 10280, 7534>>,
       <<0, 12772, 10736, 2006, 10507, 3013, 10740, 7348>>,
       <<0, 15444, 10348, 11853, 2087, 8649, 4998, 365>>,
       <<0, 16383, 14511, 14738, 15822, 7687, 7577, 6149>>,
       <<0, 15485, 709, 15258, 14306, 2939, 4504, 12942>>,
       <<0, 12848, 15481, 6965, 11297, 36, 10609, 11492>>,
       <<0, 8771, 5447, 7644, 12595, 3942, 9186, 4393>>,
       <<0, 3709, 10985, 7777, 6019, 14678, 13872, 4429>>,
       <<-1, 14615, 13487, 8934, 957, 12165, 10223, 15197>>,
       <<-1, 9336, 5675, 13974, 13505, 1962, 8529, 5991>>,
       <<-1, 4847, 8861, 14915, 13755, 14728, 13544, 16002>> >>
  >>

\* A double-precision value is held as Limbs limbs to the base Limb = 2^14.
Limb == 16384

\* binary digits after the point of a high-precision number
FracBits == 98

\* number of limbs of a high-precision number
Limbs == 8

HpN1(r, c2, c3, c4, c5, c6, c7, c8) ==
  << r[1] + (c2 \div Limb), c2 % Limb, c3 % Limb, c4 % Limb, c5 % Limb, c6 % Limb, c7 % Limb, c8 % Limb >>

HpN2(r, c3, c4, c5, c6, c7, c8) ==
  CASE c3 = c3 -> HpN1(r, r[2] + (c3 \div Limb), c3, c4, c5, c6, c7, c8)

HpN3(r, c4, c5, c6, c7, c8) ==
  CASE c4 = c4 -> HpN2(r, r[3] + (c4 \div Limb), c4, c5, c6, c7, c8)

HpN4(r, c5, c6, c7, c8) ==
  CASE c5 = c5 -> HpN3(r, r[4] + (c5 \div Limb), c5, c6, c7, c8)

HpN5(r, c6, c7, c8) ==
  CASE c6 = c6 -> HpN4(r, r[5] + (c6 \div Limb), c6, c7, c8)

HpN6(r, c7, c8) ==
  CASE c7 = c7 -> HpN5(r, r[6] + (c7 \div Limb), c7, c8)

HpN7(r, c8) ==
  CASE c8 = c8 -> HpN6(r, r[7] + (c8 \div Limb), c8)

\* Carries a tuple of signed column sums, the last one a guard column, into
\* limbs: a signed integer limb and fraction limbs in 0 .. Limb - 1.  The
\* value is r[1] + r[2] / Limb + r[3] / Limb^2 + ...
HpNorm(r) == CASE r = r -> HpN7(r, r[8] + (r[9] \div Limb))

\* x * y, rounded down to a multiple of 2^-FracBits up to the carries of the
\* guard column
HpMul(x, y) ==
  CASE x = x /\ y = y ->
    HpNorm(<< x[1] * y[1],
              x[1] * y[2] + x[2] * y[1],
              x[1] * y[3] + x[2] * y[2] + x[3] * y[1],
              x[1] * y[4] + x[2] * y[3] + x[3] * y[2] + x[4] * y[1],
              x[1] * y[5] + x[2] * y[4] + x[3] * y[3] + x[4] * y[2] + x[5] * y[1],
              x[1] * y[6] + x[2] * y[5] + x[3] * y[4] + x[4] * y[3] + x[5] * y[2] + x[6] * y[1],
              x[1] * y[7] + x[2] * y[6] + x[3] * y[5] + x[4] * y[4] + x[5] * y[3] + x[6] * y[2] + x[7] * y[1],
              x[1] * y[8] + x[2] * y[7] + x[3] * y[6] + x[4] * y[5] + x[5] * y[4] + x[6] * y[3] + x[7] * y[2] + x[8] * y[1],
              x[2] * y[8] + x[3] * y[7] + x[4] * y[6] + x[5] * y[5] + x[6] * y[4] + x[7] * y[3] + x[8] * y[2] >>)

\* x + y, x - y, -x, x * k for a small integer k, and the integer k
HpAdd(x, y) ==
  CASE x = x /\ y = y ->
    HpNorm(<< x[1] + y[1], x[2] + y[2], x[3] + y[3], x[4] + y[4], x[5] + y[5], x[6] + y[6], x[7] + y[7], x[8] + y[8], 0 >>)

HpSub(x, y) ==
  CASE x = x /\ y = y ->
    HpNorm(<< x[1] - y[1], x[2] - y[2], x[3] - y[3], x[4] - y[4], x[5] - y[5], x[6] - y[6], x[7] - y[7], x[8] - y[8], 0 >>)

HpNeg(x) == CASE x = x -> HpNorm(<< -x[1], -x[2], -x[3], -x[4], -x[5], -x[6], -x[7], -x[8], 0 >>)

HpScale(x, k) == CASE x = x -> HpNorm(<< x[1] * k, x[2] * k, x[3] * k, x[4] * k, x[5] * k, x[6] * k, x[7] * k, x[8] * k, 0 >>)

HpInt(k) == << k, 0, 0, 0, 0, 0, 0, 0 >>

\* Number of binary digits of X >= 0, counted from the digit of weight
\* 2^-FracBits.
HpBits(X) ==
  IF X[1] > 0 THEN 98 + BitLen(X[1])
  ELSE IF X[2] > 0 THEN 84 + BitLen(X[2])
  ELSE IF X[3] > 0 THEN 70 + BitLen(X[3])
  ELSE IF X[4] > 0 THEN 56 + BitLen(X[4])
  ELSE IF X[5] > 0 THEN 42 + BitLen(X[5])
  ELSE IF X[6] > 0 THEN 28 + BitLen(X[6])
  ELSE IF X[7] > 0 THEN 14 + BitLen(X[7])
  ELSE BitLen(X[8])

\* the limb that holds the binary digit p (counted from 2^-FracBits), and
\* the place of the digit in it
LimbOf(p) == IF p >= FracBits THEN 1 ELSE Limbs - (p \div 14)

ShiftOf(p) == IF p >= FracBits THEN p - FracBits ELSE p % 14

\* X has a nonzero digit below the digit p
LowNonzero(X, p) ==
  \/ X[LimbOf(p)] % (2 ^ ShiftOf(p)) # 0
  \/ \E i \in (LimbOf(p) + 1) .. Limbs : X[i] # 0

\* rounding X at the digit pos to nearest, ties to even, goes up
HpRoundUp(X, pos) ==
  /\ (X[LimbOf(pos - 1)] \div (2 ^ ShiftOf(pos - 1))) % 2 = 1
  /\ (LowNonzero(X, pos - 1) \/ (X[LimbOf(pos)] \div (2 ^ ShiftOf(pos))) % 2 = 1)

\* X without its digits below pos, plus one unit of the digit pos when up
HpCut(X, pos, up) ==
  HpNorm([i \in 1 .. (Limbs + 1) |->
            IF i > LimbOf(pos) THEN 0
            ELSE IF i = LimbOf(pos)
              THEN X[i] - (X[i] % (2 ^ ShiftOf(pos))) + (IF up THEN 2 ^ ShiftOf(pos) ELSE 0)
            ELSE X[i]])

\* binary digits of the mantissa of a double
DoubleBits == 53

\* X >= 0 rounded to the DoubleBits significant binary digits of a double,
\* ties to even: the result of an IEEE 754 operation in double (a product,
\* a quotient, a difference) with the exact value X.
HpRound(X) ==
  CASE X = X ->
    IF HpBits(X) <= DoubleBits THEN X
    ELSE HpCut(X, HpBits(X) - DoubleBits, HpRoundUp(X, HpBits(X) - DoubleBits))

\* The double that sin or tan of the C library returns where the exact value
\* is X >= 0.  The library is accurate to less than one unit in the last
\* place and not correctly rounded, so that the result is one of the two
\* doubles next to the exact value, the same one at every call with the same
\* argument.  Which one is a property of the library the program is linked
\* with: lib = "nearest" is the library that returns the nearer of the two
\* at every argument, "farther" the one that returns the other.  Every
\* function that reaches sin or tan takes the library as its last argument.
LibmModes == {"nearest", "farther"}

LibmRound(X, lib) ==
  CASE X = X ->
    IF HpBits(X) <= DoubleBits \/ ~LowNonzero(X, HpBits(X) - DoubleBits) THEN X
    ELSE HpCut(X, HpBits(X) - DoubleBits,
               HpRoundUp(X, HpBits(X) - DoubleBits) = (lib = "nearest"))

\* the part of limb i at and above the digit lo, in units of the digit lo
HpTerm(X, i, lo) ==
  IF X[i] = 0 THEN 0
  ELSE IF 14 * (Limbs - i) >= lo THEN X[i] * (2 ^ (14 * (Limbs - i) - lo))
  ELSE IF lo - 14 * (Limbs - i) >= 14 THEN 0
  ELSE X[i] \div (2 ^ (lo - 14 * (Limbs - i)))

\* the digits of X from the digit lo upwards, as an integer
HpTake(X, lo) ==
  HpTerm(X, 1, lo)
    + HpTerm(X, 2, lo)
    + HpTerm(X, 3, lo)
    + HpTerm(X, 4, lo)
    + HpTerm(X, 5, lo)
    + HpTerm(X, 6, lo)
    + HpTerm(X, 7, lo)
    + HpTerm(X, 8, lo)

\* x * 43758.5453f as HpMul gives it: the float is 43758.546875 = 43758 + 8960 / Limb
HashMul(x) ==
  CASE x = x ->
    HpNorm(<< x[1] * 43758,
              x[1] * 8960 + x[2] * 43758,
              x[2] * 8960 + x[3] * 43758,
              x[3] * 8960 + x[4] * 43758,
              x[4] * 8960 + x[5] * 43758,
              x[5] * 8960 + x[6] * 43758,
              x[6] * 8960 + x[7] * 43758,
              x[7] * 8960 + x[8] * 43758,
              x[8] * 8960 >>)

\* The float nearest to s * X * 2^e, for X >= 0: the conversion of a double
\* to float.  X is rounded from its top 30 digits and the rest.
HpToFloat(s, X, e) ==
  CASE X = X ->
    RoundF(s, HpTake(X, Max(0, HpBits(X) - 30)), Max(0, HpBits(X) - 30) - FracBits + e,
           LowNonzero(X, Max(0, HpBits(X) - 30)))

\* sine and cosine of 0
SinCosUnit == << HpInt(0), HpInt(1) >>

\* sine and cosine of the sum of two angles from a, the pair of their
\* <<sin, cos>>
AddAngle(a) ==
  CASE a = a ->
    IF a[1] = SinCosUnit THEN a[2]
    ELSE IF a[2] = SinCosUnit THEN a[1]
    ELSE << HpAdd(HpMul(a[1][1], a[2][2]), HpMul(a[1][2], a[2][1])),
            HpSub(HpMul(a[1][2], a[2][2]), HpMul(a[1][1], a[2][1])) >>

\* the sine alone
AddAngleSin(a) ==
  CASE a = a ->
    IF a[1] = SinCosUnit THEN a[2][1]
    ELSE IF a[2] = SinCosUnit THEN a[1][1]
    ELSE HpAdd(HpMul(a[1][1], a[2][2]), HpMul(a[1][2], a[2][1]))

\* the base of the digits of an angle, and the number of digit weights
\* 64^-6 .. 64^21 the tables cover: every float of magnitude below 2^128
\* that is a multiple of 2^-36
Radix == 64

TabRows == 28

\* The floats whose sine the tables give: the multiples of 2^-36.  Every
\* whole number is one, and hash is called with whole numbers only (n is a
\* sum of products of floor values, line 57).  sin and tan of another float
\* have no value here.
SinDomain(x) == x[2] >= -36 \/ (x[2] > -60 /\ x[1] % (2 ^ (-36 - x[2])) = 0)

\* The digit of weight 64^(k - 7) of m * 2^e, 0 <= m < 2^24.
Digit(m, e, k) ==
  IF e - (6 * k - 42) >= 6 THEN 0
  ELSE IF e - (6 * k - 42) >= 0 THEN (m * (2 ^ (e - (6 * k - 42)))) % Radix
  ELSE IF e - (6 * k - 42) <= -24 THEN 0
  ELSE (m \div (2 ^ ((6 * k - 42) - e))) % Radix

\* acc is << <<sin, cos>> of the digits above row k but the last nonzero one,
\* <<sin, cos>> of that one >>; the digits of the rows k and below are taken
\* in
RECURSIVE SinCosFrom(_, _, _, _)
SinCosFrom(m, e, k, acc) ==
  CASE acc = acc ->
    IF k = 0 THEN acc
    ELSE IF Digit(m, e, k) = 0 THEN SinCosFrom(m, e, k - 1, acc)
    ELSE SinCosFrom(m, e, k - 1,
                    << AddAngle(acc), << SinTab[k][Digit(m, e, k)], CosTab[k][Digit(m, e, k)] >> >>)

\* The angle |x| of a float x in SinDomain, as the pair of <<sin, cos>> of
\* two angles that add up to it, by the addition theorems over the base-64
\* digits of |x|.
SinCosParts(x) ==
  CASE SinDomain(x) -> SinCosFrom(Abs(x[1]), x[2], TabRows, << SinCosUnit, SinCosUnit >>)

\* The mathematical sine and cosine of |x|, to within a few units of
\* 2^-FracBits.
SinCos(x) == AddAngle(SinCosParts(x))

\* x - floor(x) as a double for x = P, or x = -P when neg, from the P >= 0
\* without its integer part
HashFrac(neg, P) ==
  CASE P = P -> IF neg /\ P # HpInt(0) THEN HpRound(HpSub(HpInt(1), P)) ELSE P

\* sin(n) as the double of the library, times 43758.5453f as a double, minus
\* its floor, stored in a float; s is sin(|n|), and sin(n) = -sin(-n) for the
\* n < 0 that nneg tells
HashOf(nneg, s, lib) ==
  HpToFloat(1, HashFrac((s[1] < 0) # nneg, [HpRound(HashMul(LibmRound(IF s[1] < 0 THEN HpNeg(s) ELSE s, lib)))
                               EXCEPT ![1] = 0]), 0)

\* return sin(n) * 43758.5453f - floor(sin(n) * 43758.5453f)
hash(n, lib) == CASE n = n -> HashOf(n[1] < 0, AddAngleSin(SinCosParts(n)), lib)

(***************************************************************************)
(* The functions of lol.cpp, lines 12-104, and the loop body of            *)
(* render_framebuffer, lines 112-123                                       *)
(***************************************************************************)
f_half == <<8388608, -24>>
f_1 == <<8388608, -23>>
f_2 == <<8388608, -22>>
f_3 == <<12582912, -22>>
f_255 == <<16711680, -16>>

make_vec3f(x, y, z) == <<x, y, z>>

vec3f_dot(a, b) ==
  CASE a = a /\ b = b ->
    FAdd(FAdd(FMul(a[1], b[1]), FMul(a[2], b[2])), FMul(a[3], b[3]))

vec3f_add(a, b) == CASE a = a /\ b = b -> <<FAdd(a[1], b[1]), FAdd(a[2], b[2]), FAdd(a[3], b[3])>>

vec3f_sub(a, b) == CASE a = a /\ b = b -> <<FSub(a[1], b[1]), FSub(a[2], b[2]), FSub(a[3], b[3])>>

vec3f_scale(v, scalar) ==
  CASE v = v /\ scalar = scalar -> <<FMul(v[1], scalar), FMul(v[2], scalar), FMul(v[3], scalar)>>

vec3f_norm(v) == CASE v = v -> FSqrt(vec3f_dot(v, v))

\* n > 0 ? make_vec3f(v.x / n, v.y / n, v.z / n) : make_vec3f(0, 0, 0)
vec3f_over(v, n) ==
  CASE v = v /\ n = n ->
    IF FLess(f_0, n) THEN make_vec3f(FDiv(v[1], n), FDiv(v[2], n), FDiv(v[3], n))
    ELSE make_vec3f(f_0, f_0, f_0)

vec3f_normalize(v) == vec3f_over(v, vec3f_norm(v))

\* 1.5
sphere_radius == <<12582912, -23>>

\* 1.0
noise_amplitude == <<8388608, -23>>

lerp(v0, v1, t) ==
  CASE v0 = v0 /\ v1 = v1 /\ t = t ->
    FAdd(v0, FMul(FSub(v1, v0), FMax(f_0, FMin(f_1, t))))

\* Vec3f p = {floor(x.x), floor(x.y), floor(x.z)}
noise_cell(x) == make_vec3f(FFloor(x[1]), FFloor(x[2]), FFloor(x[3]))

\* f = vec3f_scale(f, vec3f_dot(f, vec3f_sub({3, 3, 3}, vec3f_scale(f, 2))))
noise_fade(f) ==
  CASE f = f ->
    vec3f_scale(f, vec3f_dot(f, vec3f_sub(<<f_3, f_3, f_3>>, vec3f_scale(f, f_2))))

\* the lattice weights {1.f, 57.f, 113.f} of the three axes
noise_weight == << <<8388608, -23>>, <<14942208, -18>>, <<14811136, -17>> >>

\* the same weights as the integers added to n at the corners of a cell
noise_stride == <<1, 57, 113>>

\* The nested lerp of the return statement: the hashes at n + off and
\* n + off + stride are blended along the axes 1 .. axis, x innermost.
RECURSIVE noise_blend(_, _, _, _, _)
noise_blend(n, off, f, axis, lib) ==
  CASE n = n /\ f = f ->
    IF axis = 0 THEN hash(FAdd(n, FromInt(off)), lib)
    ELSE lerp(noise_blend(n, off, f, axis - 1, lib),
              noise_blend(n, off + noise_stride[axis], f, axis - 1, lib),
              f[axis])

noise_in(x, p, lib) ==
  CASE x = x /\ p = p ->
    noise_blend(vec3f_dot(p, noise_weight), 0, noise_fade(vec3f_sub(x, p)), 3, lib)

noise(x, lib) == noise_in(x, noise_cell(x), lib)

\* the rows {0.00, 0.80, 0.60}, {-0.80, 0.36, -0.48}, {-0.60, -0.48, 0.64}
rotate_rows ==
  << << <<0, 0>>, <<13421773, -24>>, <<10066330, -24>> >>,
     << <<-13421773, -24>>, <<12079596, -25>>, <<-16106127, -25>> >>,
     << <<-10066330, -24>>, <<-16106127, -25>>, <<10737418, -24>> >> >>

rotate(v) ==
  CASE v = v ->
    << vec3f_dot(rotate_rows[1], v), vec3f_dot(rotate_rows[2], v), vec3f_dot(rotate_rows[3], v) >>

\* the weights 0.5000, 0.2500, 0.1250, 0.0625 of the four octaves are the
\* powers 2^-1 .. 2^-4: the exponents
octave_weight == << -1, -2, -3, -4 >>

\* the factors 2.32, 3.03, 2.61 between the octaves, as floats
octave_factor == << <<9730785, -22>>, <<12708741, -22>>, <<10947133, -22>> >>

\* a * 2^e: the product of a float and a power of two as a double, which is
\* exact and need not be a float
FScaleExp(a, e) == IF a[1] = 0 THEN a ELSE <<a[1], a[2] + e>>

\* The statements "f += weight * noise(p); p = vec3f_scale(p, factor)" of
\* the octaves k .. 4, from the values f and p before them.  Product and
\* sum are taken in double and the sum is stored in a float: the product
\* is exact, and the sum comes to the float nearest to the exact sum.
RECURSIVE fbm_octaves(_, _, _, _)
fbm_octaves(p, f, k, lib) ==
  CASE p = p /\ f = f ->
    IF k > 4 THEN f
    ELSE fbm_octaves(IF k < 4 THEN vec3f_scale(p, octave_factor[k]) ELSE p,
                     FAdd(f, FScaleExp(noise(p, lib), octave_weight[k])),
                     k + 1, lib)

RECURSIVE HpDivSmallFrom(_, _, _, _, _)
HpDivSmallFrom(X, d, i, rem, acc) ==
  IF i > Limbs THEN acc
  ELSE HpDivSmallFrom(X, d, i + 1, (rem * Limb + X[i]) % d, Append(acc, (rem * Limb + X[i]) \div d))

\* X / d rounded down to a multiple of 2^-FracBits, for X >= 0 and 0 < d < 2^16.
HpDivSmall(X, d) == CASE X = X -> HpDivSmallFrom(X, d, 1, 0, <<>>)

\* return f / 0.9375: with f = m * 2^e, the quotient m * 16 / 15 as a
\* double, times 2^e, stored in a float
fbm_quotient(f) ==
  CASE f = f ->
    HpToFloat(Sign(f[1]), HpRound(HpDivSmall(HpInt(Abs(f[1]) * 16), 15)), f[2])

fractal_brownian_motion(x, lib) ==
  CASE x = x -> fbm_quotient(fbm_octaves(rotate(x), f_0, 1, lib))

\* 3.4 as a float
displacement_scale == <<14260634, -22>>

\* float displacement = -fractal_brownian_motion(vec3f_scale(p, 3.4)) * noise_amplitude
displacement(p, lib) ==
  FMul(FNeg(fractal_brownian_motion(vec3f_scale(p, displacement_scale), lib)), noise_amplitude)

\* the field with its sign turned round
signed_distance_inverted(p, lib) ==
  CASE p = p -> FSub(FAdd(sphere_radius, displacement(p, lib)), vec3f_norm(p))

\* return vec3f_norm(p) - (sphere_radius + displacement)
signed_distance(p, lib) ==
  CASE p = p -> FSub(vec3f_norm(p), FAdd(sphere_radius, displacement(p, lib)))

\* const float eps = 0.1
eps == <<13421773, -27>>

\* the offsets of the points where distance_field_normal takes the field
normal_probe ==
  << <<f_0, f_0, f_0>>, <<eps, f_0, f_0>>, <<f_0, eps, f_0>>, <<f_0, f_0, eps>> >>

\* the normal from the four field values d, and nx, ny, nz before "- d"
normal_from(s) ==
  CASE s = s -> vec3f_normalize(make_vec3f(FSub(s[2], s[1]), FSub(s[3], s[1]), FSub(s[4], s[1])))

normal_field(pos, k, lib) ==
  IF k = 1 THEN signed_distance(pos, lib)
  ELSE signed_distance(vec3f_add(pos, normal_probe[k]), lib)

distance_field_normal(pos, lib) == normal_from([k \in 1 .. 4 |-> normal_field(pos, k, lib)])

MaxSteps == 128

\* one iteration too many
loop_continues_inclusive(i) == i <= MaxSteps

\* for (size_t i = 0; i < 128; i++)
loop_continues(i) == i < MaxSteps

\* the test d <= 0 in place of d < 0
march_hit_nonpositive(d) == ~FLess(f_0, d)

\* if (d < 0) return pos
march_hit(d) == FLess(d, f_0)

\* 0.1f and 0.01f
march_factor == <<13421773, -27>>

march_floor == <<10737418, -30>>

\* the step taken against the direction
march_advance_backwards(pos, dir, d) ==
  vec3f_sub(pos, vec3f_scale(dir, FMax(FMul(d, march_factor), march_floor)))

\* pos = vec3f_add(pos, vec3f_scale(dir, std::max(d * 0.1f, 0.01f)))
march_advance(pos, dir, d) ==
  vec3f_add(pos, vec3f_scale(dir, FMax(FMul(d, march_factor), march_floor)))

loop_body_with(st, dir, d) ==
  CASE st = st /\ d = d ->
    IF march_hit(d) THEN [st EXCEPT !.returned = TRUE]
    ELSE [pos |-> march_advance(st.pos, dir, d), i |-> st.i + 1, returned |-> FALSE]

RECURSIVE loop_run(_, _, _, _)
loop_run(st, dir, n, lib) ==
  IF n = 0 \/ st.returned \/ ~loop_continues(st.i) THEN st
  ELSE IF n = 1 THEN loop_body_with(st, dir, signed_distance(st.pos, lib))
  ELSE LET first == loop_run(st, dir, n \div 2, lib)
       IN IF first.returned THEN first ELSE loop_run(first, dir, n - n \div 2, lib)

nullopt == [some |-> FALSE, pos |-> <<f_0, f_0, f_0>>]

trace_result(last) ==
  CASE last = last -> IF last.returned THEN [some |-> TRUE, pos |-> last.pos] ELSE nullopt

sphere_trace(orig, dir, lib) ==
  trace_result(loop_run([pos |-> orig, i |-> 0, returned |-> FALSE], dir, MaxSteps + 1, lib))

\* Newton steps y <- y * (2 - D * y) towards 1 / D
RECURSIVE HpRecipFrom(_, _, _)
HpRecipFrom(D, y, k) ==
  CASE y = y ->
    IF k = 0 THEN y
    ELSE HpRecipFrom(D, HpMul(y, HpSub(HpInt(2), HpMul(D, y))), k - 1)

\* 1 / D for 2^-13 < D < 2^13, to within a few units of 2^-FracBits
HpRecip(D) ==
  CASE D = D -> HpRecipFrom(D, HpNorm(<<0, 268435456 \div (D[1] * Limb + D[2]), 0, 0, 0, 0, 0, 0, 0>>), 5)

HpDiv(N, D) == HpMul(N, HpRecip(D))

\* tan(x) as the double of the library, for a float x >= 0 in SinDomain
\* with sin(x) >= 0 and cos(x) >= 2^-13, which holds for 0 <= x <= 1.57;
\* tan of another float has no value here
tan(x, lib) ==
  CASE x[1] >= 0 /\ SinCos(x)[1][1] >= 0 /\ SinCos(x)[2][1] * Limb + SinCos(x)[2][2] >= 2 ->
    LibmRound(HpDiv(SinCos(x)[1], SinCos(x)[2]), lib)

\* -height / (2.0f * tan(fov / 2.0f)): a quotient of doubles stored in a float
ray_dir_z(h, f, lib) ==
  HpToFloat(-1, HpRound(HpDiv(HpInt(h), HpScale(tan(FDiv(f, f_2), lib), 2))), 0)

\* dir_x, dir_y, dir_z of pixel (i, j), normalised
ray_dir(i, j, w, h, f, lib) ==
  vec3f_normalize(make_vec3f(FSub(FAdd(FromInt(i), f_half), FDiv(FromInt(w), f_2)),
                             FAdd(FNeg(FAdd(FromInt(j), f_half)), FDiv(FromInt(h), f_2)),
                             ray_dir_z(h, f, lib)))

camera == <<f_0, f_0, f_3>>

\* {0, 10, 10}
light == <<f_0, <<10485760, -20>>, <<10485760, -20>>>>

\* {0.3f, 0.9f, 0.2f}
background == << <<10066330, -25>>, <<15099494, -24>>, <<13421773, -26>> >>

\* 0.4f
ambient == <<13421773, -25>>

\* the ambient term added instead of taken as a floor
light_intensity_added(light_dir, normal) == FAdd(ambient, vec3f_dot(light_dir, normal))

\* std::max(0.4f, vec3f_dot(light_dir, distance_field_normal(*hit)))
light_intensity(light_dir, normal) == FMax(ambient, vec3f_dot(light_dir, normal))

\* What the loop body has at hand when it stores the pixel: hit, the outcome
\* of sphere_trace, and in the hit branch light_dir and the value of
\* distance_field_normal(*hit).  Without a hit the two are not computed.
pixel_shading(hit, lib) ==
  CASE hit = hit ->
    [hit |-> hit,
     light_dir |-> IF hit.some THEN vec3f_normalize(vec3f_sub(light, hit.pos))
                   ELSE <<f_0, f_0, f_0>>,
     normal |-> IF hit.some THEN distance_field_normal(hit.pos, lib) ELSE <<f_0, f_0, f_0>>]

\* the colour stored in framebuffer[i + j * width]
pixel_of(s) ==
  IF s.hit.some THEN vec3f_scale(<<f_1, f_1, f_1>>, light_intensity(s.light_dir, s.normal))
  ELSE background

\* the cast without the clamp: the scaled value is reduced modulo 256
to_byte_unclamped(c) == FTrunc(FMul(c, f_255)) % 256

\* static_cast<uint8_t>(std::max(0.f, std::min(255.f, c * 255.f)))
to_byte(c) == FTrunc(FMax(f_0, FMin(f_255, FMul(c, f_255))))

(***************************************************************************)
(* render_framebuffer and convert_framebuffer_to_pixels: the indices       *)
(***************************************************************************)
\* the index without the row stride
cell_index_unstrided(i, j, w) == i + j

\* framebuffer[i + j * width]
cell_index(i, j, w) == i + j * w

\* size_t pixelIndex = (j * width + i) * 3
pixel_index(i, j, w) == (j * w + i) * 3

(***************************************************************************)
(* Bounds of the model.  main renders 640 x 480; the model renders every   *)
(* image of at most MaxWidth x MaxHeight and at most MaxPixels pixels,     *)
(* with either library of LibmModes, rows shared among at most MaxThreads  *)
(* threads, and presents at most MaxFrames frames before the quit event.   *)
(* convert_framebuffer_to_pixels alone is run on every framebuffer of at   *)
(* most MaxConvWidth x MaxConvHeight sample colours.                       *)
(***************************************************************************)
MaxWidth == 3
MaxHeight == 2
MaxThreads == 2
MaxFrames == 2
MaxConvWidth == 2
MaxConvHeight == 2
MaxPixels == 4

\* main: const float fov = M_PI / 3.0, the float nearest to pi / 3
main_fov == <<8784530, -23>>

\* what the loop body of render_framebuffer(w, h, f) has at hand for each
\* pixel <<i, j>>: the outcome of sphere_trace along the pixel's ray and, on
\* a hit, light_dir and the normal
image_shading(w, h, f, lib) ==
  [p \in (0 .. (w - 1)) \X (0 .. (h - 1)) |->
     pixel_shading(sphere_trace(camera, ray_dir(p[1], p[2], w, h, f, lib), lib), lib)]

\* 0.187033787, a field of view at which a pixel of the 2 x 17 image is
\* lit head-on
narrow_fov == <<12551625, -26>>

\* calls render_framebuffer(width, height, fov) made on its own
Images ==
  { <<0, 1, main_fov>>, <<1, 0, main_fov>>, <<1, 1, main_fov>>, <<3, 1, main_fov>>,
    <<2, 2, f_1>>, <<2, 17, narrow_fov>> }

\* rays handed to sphere_trace on its own, as <<orig, dir>>
Ray_towards == << camera, <<f_0, f_0, FNeg(f_1)>> >>
Ray_away == << camera, <<f_0, f_0, f_1>> >>
Ray_still == << camera, <<f_0, f_0, f_0>> >>
Ray_inside == << <<f_0, f_0, f_0>>, <<f_0, f_0, FNeg(f_1)>> >>
\* from (0, 0.999515891, 0), a point where the field is exactly 0, along (0, -1, 0)
Ray_surface == << <<f_0, <<16769094, -24>>, f_0>>, <<f_0, FNeg(f_1), f_0>> >>

VARIABLES
  libm,                \* the C library the program runs with, of LibmModes
  width, height, fov,  \* the arguments of render_framebuffer
  shaded,              \* pixel <<i, j>> -> [hit, light_dir, normal] of the loop body
  colour,              \* pixel <<i, j>> -> the colour the loop body stores for it
  pc,                  \* where main is: "main", "start", "render", "convert",
                       \* "sdl_init", "display", "exit"
  threads,             \* number of threads of the parallel region
  framebuffer,         \* std::vector<Vec3f> framebuffer: cell -> colour
  fb_writes,           \* history: cell -> the writes it received, as [i, j, t]
  rows_left,           \* rows j of the parallel for no thread has taken yet
  w_row, w_col,        \* per thread: its row j (-1: none) and its column i
  pixels,              \* std::vector<uint8_t> pixels: byte index -> byte
  px_writes,           \* history: byte index -> number of writes
  fb_in,               \* history: the framebuffer convert was called with
  c_j, c_i,            \* the loop counters of convert_framebuffer_to_pixels
  running,             \* bool running of the display loop
  presents,            \* number of frames presented, capped at MaxFrames
  frames,              \* history: the pixel buffers handed to SDL_UpdateTexture
  t_orig, t_dir,       \* the arguments of sphere_trace
  t_st,                \* its loop state [pos, i, returned]
  t_evals,             \* history: evaluations of signed_distance
  t_d, t_at,           \* history: the last field value and where it was taken
  t_nonneg,            \* history: no field value so far was < 0
  t_result             \* "running", "hit", "nohit" ("idle": not called)

main_vars == << libm, width, height, fov, shaded, colour, pc, threads, framebuffer, fb_writes, rows_left,
                w_row, w_col, pixels, px_writes, fb_in, c_j, c_i, running,
                presents, frames >>
trace_vars == << t_orig, t_dir, t_st, t_evals, t_d, t_at, t_nonneg, t_result >>
vars == << main_vars, trace_vars >>

Cells == 0 .. (width * height - 1)
Bytes == 0 .. (width * height * 3 - 1)

(***************************************************************************)
(* main (lines 150-209): render_framebuffer, convert_framebuffer_to_pixels,*)
(* SDL set-up, display loop.                                               *)
(***************************************************************************)
\* main is about to call render_framebuffer(w, h, f)
Init ==
  \E w \in 0 .. MaxWidth, h \in 0 .. MaxHeight, lib \in LibmModes :
    /\ w * h <= MaxPixels
    /\ libm = lib
    /\ width = w /\ height = h /\ fov = main_fov
    /\ shaded = <<>> /\ colour = <<>>
    /\ pc = "main"
    /\ threads = 0
    /\ framebuffer = <<>>
    /\ fb_writes = [k \in 0 .. (w * h - 1) |-> <<>>]
    /\ rows_left = 0 .. (h - 1)
    /\ w_row = <<>>
    /\ w_col = <<>>
    /\ pixels = <<>> /\ px_writes = <<>> /\ fb_in = <<>>
    /\ c_j = 0 /\ c_i = 0
    /\ running = FALSE /\ presents = 0 /\ frames = {}
    /\ t_orig = <<f_0, f_0, f_0>> /\ t_dir = <<f_0, f_0, f_0>>
    /\ t_st = [pos |-> <<f_0, f_0, f_0>>, i |-> 0, returned |-> FALSE]
    /\ t_evals = 0 /\ t_d = f_0 /\ t_at = <<f_0, f_0, f_0>> /\ t_nonneg = TRUE
    /\ t_result = "idle"

\* render_framebuffer is entered: std::vector<Vec3f> framebuffer(width * height)
\* creates the vector of value-initialised cells.  The arguments and the
\* library determine what the loop body will compute for each pixel.
RenderCall ==
  /\ pc = "main"
  /\ pc' = "start"
  /\ framebuffer' = [k \in Cells |-> <<f_0, f_0, f_0>>]
  /\ \E s \in {image_shading(width, height, fov, libm)} :
       /\ s = s
       /\ shaded' = s
       /\ colour' = [p \in DOMAIN s |-> pixel_of(s[p])]
  /\ UNCHANGED << libm, width, height, fov, threads, fb_writes, rows_left, w_row, w_col,
                  pixels, px_writes, fb_in, c_j, c_i, running, presents, frames,
                  trace_vars >>

\* #pragma omp parallel for: a team of n threads enters the loop over j
EnterParallel(n) ==
  /\ pc = "start"
  /\ pc' = "render"
  /\ threads' = n
  /\ w_row' = [t \in 1 .. n |-> -1]
  /\ w_col' = [t \in 1 .. n |-> 0]
  /\ UNCHANGED << libm, width, height, fov, shaded, colour, framebuffer, fb_writes, rows_left, pixels,
                  px_writes, fb_in, c_j, c_i, running, presents, frames, trace_vars >>

\* thread t is handed a row j of the outer loop
TakeRow(t) ==
  /\ pc = "render"
  /\ w_row[t] = -1
  /\ \E j \in rows_left :
       /\ w_row' = [w_row EXCEPT ![t] = j]
       /\ w_col' = [w_col EXCEPT ![t] = 0]
       /\ rows_left' = rows_left \ {j}
  /\ UNCHANGED << libm, width, height, fov, shaded, colour, pc, threads, framebuffer, fb_writes, pixels,
                  px_writes, fb_in, c_j, c_i, running, presents, frames, trace_vars >>

\* one iteration of the inner loop: pixel (i, j) is traced, shaded and stored
RenderPixel(t) ==
  /\ pc = "render"
  /\ w_row[t] # -1
  /\ w_col[t] < width
  /\ LET i == w_col[t]
         j == w_row[t]
         k == cell_index(i, j, width)
     IN /\ framebuffer' = [framebuffer EXCEPT ![k] = colour[<<i, j>>]]
        /\ fb_writes' = [fb_writes EXCEPT ![k] = Append(@, [i |-> i, j |-> j, t |-> t])]
  /\ w_col' = [w_col EXCEPT ![t] = @ + 1]
  /\ UNCHANGED << libm, width, height, fov, shaded, colour, pc, threads, rows_left, w_row, pixels,
                  px_writes, fb_in, c_j, c_i, running, presents, frames, trace_vars >>

\* the inner loop of thread t ends: i < width fails
FinishRow(t) ==
  /\ pc = "render"
  /\ w_row[t] # -1
  /\ w_col[t] >= width
  /\ w_row' = [w_row EXCEPT ![t] = -1]
  /\ UNCHANGED << libm, width, height, fov, shaded, colour, pc, threads, framebuffer, fb_writes, rows_left,
                  w_col, pixels, px_writes, fb_in, c_j, c_i, running, presents,
                  frames, trace_vars >>

\* no barrier: the region is left as soon as every row is handed out
render_joined_nowait == rows_left = {}

\* the barrier that ends the parallel for: every row handed out and finished
render_joined == rows_left = {} /\ \A t \in 1 .. threads : w_row[t] = -1

\* render_framebuffer returns; main calls convert_framebuffer_to_pixels,
\* which creates the vector of width * height * 3 value-initialised bytes
RenderReturn ==
  /\ pc = "render"
  /\ render_joined
  /\ pc' = "convert"
  /\ fb_in' = framebuffer
  /\ pixels' = [b \in Bytes |-> 0]
  /\ px_writes' = [b \in Bytes |-> 0]
  /\ c_j' = 0 /\ c_i' = 0
  /\ UNCHANGED << libm, width, height, fov, shaded, colour, threads, framebuffer, fb_writes, rows_left,
                  w_row, w_col, running, presents, frames, trace_vars >>

\* one iteration of the inner loop of convert_framebuffer_to_pixels
ConvertPixel ==
  /\ pc = "convert"
  /\ c_j < height
  /\ c_i < width
  /\ LET color == framebuffer[cell_index(c_i, c_j, width)]
         pixelIndex == pixel_index(c_i, c_j, width)
     IN /\ pixels' = [pixels EXCEPT ![pixelIndex] = to_byte(color[1]),
                                    ![pixelIndex + 1] = to_byte(color[2]),
                                    ![pixelIndex + 2] = to_byte(color[3])]
        /\ px_writes' = [px_writes EXCEPT ![pixelIndex] = @ + 1,
                                          ![pixelIndex + 1] = @ + 1,
                                          ![pixelIndex + 2] = @ + 1]
  /\ c_i' = c_i + 1
  /\ UNCHANGED << libm, width, height, fov, shaded, colour, pc, threads, framebuffer, fb_writes, rows_left,
                  w_row, w_col, fb_in, c_j, running, presents, frames, trace_vars >>

\* the inner loop ends: i < width fails, j++
ConvertNextRow ==
  /\ pc = "convert"
  /\ c_j < height
  /\ c_i >= width
  /\ c_j' = c_j + 1
  /\ c_i' = 0
  /\ UNCHANGED << libm, width, height, fov, shaded, colour, pc, threads, framebuffer, fb_writes, rows_left,
                  w_row, w_col, pixels, px_writes, fb_in, running, presents, frames,
                  trace_vars >>

\* the outer loop stopped one row early
convert_done_early == c_j >= height - 1

\* the outer loop of convert_framebuffer_to_pixels ends: j < height fails
convert_done == c_j >= height

\* convert_framebuffer_to_pixels returns; main goes on to SDL_Init
ConvertReturn ==
  /\ pc = "convert"
  /\ convert_done
  /\ pc' = "sdl_init"
  /\ UNCHANGED << libm, width, height, fov, shaded, colour, threads, framebuffer, fb_writes, rows_left,
                  w_row, w_col, pixels, px_writes, fb_in, c_j, c_i, running,
                  presents, frames, trace_vars >>

\* SDL_Init, SDL_CreateWindow, SDL_CreateRenderer and SDL_CreateTexture all
\* succeed: bool running = true
SdlReady ==
  /\ pc = "sdl_init"
  /\ pc' = "display"
  /\ running' = TRUE
  /\ UNCHANGED << libm, width, height, fov, shaded, colour, threads, framebuffer, fb_writes, rows_left,
                  w_row, w_col, pixels, px_writes, fb_in, c_j, c_i, presents,
                  frames, trace_vars >>

\* one of them fails: main returns 1 and nothing is shown
SdlFail ==
  /\ pc = "sdl_init"
  /\ pc' = "exit"
  /\ UNCHANGED << libm, width, height, fov, shaded, colour, threads, framebuffer, fb_writes, rows_left,
                  w_row, w_col, pixels, px_writes, fb_in, c_j, c_i, running,
                  presents, frames, trace_vars >>

\* one iteration of while (running): the events are polled (quit: SDL_QUIT
\* was among them), then the pixel buffer is uploaded and presented
Present(quit) ==
  /\ pc = "display"
  /\ running
  /\ quit \/ presents < MaxFrames - 1
  /\ running' = ~quit
  /\ frames' = frames \cup {pixels}
  /\ presents' = presents + 1
  /\ UNCHANGED << libm, width, height, fov, shaded, colour, pc, threads, framebuffer, fb_writes, rows_left,
                  w_row, w_col, pixels, px_writes, fb_in, c_j, c_i, trace_vars >>

\* while (running) fails: the SDL objects are destroyed and main returns 0
DisplayExit ==
  /\ pc = "display"
  /\ ~running
  /\ pc' = "exit"
  /\ UNCHANGED << libm, width, height, fov, shaded, colour, threads, framebuffer, fb_writes, rows_left,
                  w_row, w_col, pixels, px_writes, fb_in, c_j, c_i, running,
                  presents, frames, trace_vars >>

Next ==
  \/ RenderCall
  \/ \E n \in 1 .. MaxThreads : EnterParallel(n)
  \/ \E t \in 1 .. threads : TakeRow(t)
  \/ \E t \in 1 .. threads : RenderPixel(t)
  \/ \E t \in 1 .. threads : FinishRow(t)
  \/ RenderReturn
  \/ ConvertPixel
  \/ ConvertNextRow
  \/ ConvertReturn
  \/ SdlReady
  \/ SdlFail
  \/ \E quit \in BOOLEAN : Present(quit)
  \/ DisplayExit

Spec == Init /\ [][Next]_vars

(***************************************************************************)
(* render_framebuffer on its own, called with an image of Images and run   *)
(* by one thread, which takes the rows in ascending order of j.  Each      *)
(* pixel is traced and shaded in the step that stores it.                  *)
(***************************************************************************)
ImagesInit ==
  \E im \in Images, lib \in LibmModes :
    /\ libm = lib
    /\ width = im[1] /\ height = im[2] /\ fov = im[3]
    /\ shaded = <<>> /\ colour = <<>>
    /\ pc = "main"
    /\ threads = 0
    /\ framebuffer = <<>>
    /\ fb_writes = [k \in 0 .. (im[1] * im[2] - 1) |-> <<>>]
    /\ rows_left = 0 .. (im[2] - 1)
    /\ w_row = <<>>
    /\ w_col = <<>>
    /\ pixels = <<>> /\ px_writes = <<>> /\ fb_in = <<>>
    /\ c_j = 0 /\ c_i = 0
    /\ running = FALSE /\ presents = 0 /\ frames = {}
    /\ t_orig = <<f_0, f_0, f_0>> /\ t_dir = <<f_0, f_0, f_0>>
    /\ t_st = [pos |-> <<f_0, f_0, f_0>>, i |-> 0, returned |-> FALSE]
    /\ t_evals = 0 /\ t_d = f_0 /\ t_at = <<f_0, f_0, f_0>> /\ t_nonneg = TRUE
    /\ t_result = "idle"

\* render_framebuffer is entered: the vector of value-initialised cells is
\* created, no pixel is computed yet
ImageCall ==
  /\ pc = "main"
  /\ pc' = "start"
  /\ framebuffer' = [k \in Cells |-> <<f_0, f_0, f_0>>]
  /\ UNCHANGED << libm, width, height, fov, shaded, colour, threads, fb_writes, rows_left,
                  w_row, w_col, pixels, px_writes, fb_in, c_j, c_i, running, presents,
                  frames, trace_vars >>

\* one iteration of the inner loop: the ray of pixel (i, j) is traced, the
\* pixel is shaded and stored
ImagePixel(t) ==
  /\ pc = "render"
  /\ w_row[t] # -1
  /\ w_col[t] < width
  /\ \E im \in {image_shading(width, height, fov, libm)} :
       \E s \in {im[<<w_col[t], w_row[t]>>]} :
         /\ shaded' = (<<w_col[t], w_row[t]>> :> s) @@ shaded
         /\ colour' = (<<w_col[t], w_row[t]>> :> pixel_of(s)) @@ colour
         /\ framebuffer' = [framebuffer EXCEPT ![cell_index(w_col[t], w_row[t], width)] = pixel_of(s)]
  /\ fb_writes' = [fb_writes EXCEPT ![cell_index(w_col[t], w_row[t], width)] =
                                     Append(@, [i |-> w_col[t], j |-> w_row[t], t |-> t])]
  /\ w_col' = [w_col EXCEPT ![t] = @ + 1]
  /\ UNCHANGED << libm, width, height, fov, pc, threads, rows_left, w_row, pixels,
                  px_writes, fb_in, c_j, c_i, running, presents, frames, trace_vars >>

\* thread t is handed the next row j of the outer loop
TakeNextRow(t) ==
  /\ pc = "render"
  /\ w_row[t] = -1
  /\ \E j \in rows_left :
       /\ \A r \in rows_left : j <= r
       /\ w_row' = [w_row EXCEPT ![t] = j]
       /\ w_col' = [w_col EXCEPT ![t] = 0]
       /\ rows_left' = rows_left \ {j}
  /\ UNCHANGED << libm, width, height, fov, shaded, colour, pc, threads, framebuffer, fb_writes,
                  pixels, px_writes, fb_in, c_j, c_i, running, presents, frames, trace_vars >>

ImagesNext ==
  \/ ImageCall
  \/ EnterParallel(1)
  \/ TakeNextRow(1)
  \/ ImagePixel(1)
  \/ FinishRow(1)
  \/ RenderReturn

SpecImages == ImagesInit /\ [][ImagesNext]_vars

(***************************************************************************)
(* convert_framebuffer_to_pixels on its own, called with any framebuffer   *)
(* of the colours (-0.5, 0, 1.5), (0.3, 0.9, 0.2) and (1, 0.999, 0.004):   *)
(* components below 0, inside [0, 1] and above 1                           *)
(***************************************************************************)
ConvertInit ==
  \E w \in 1 .. MaxConvWidth, h \in 1 .. MaxConvHeight :
    \E fb \in [0 .. (w * h - 1) -> { << <<-8388608, -24>>, f_0, <<12582912, -23>> >>,
                                     background,
                                     << f_1, <<16760439, -24>>, <<8589935, -31>> >> }],
       lib \in LibmModes :
      /\ libm = lib
      /\ width = w /\ height = h /\ fov = main_fov
      /\ shaded = <<>> /\ colour = <<>>
      /\ pc = "convert"
      /\ threads = 1
      /\ framebuffer = fb
      /\ fb_in = fb
      /\ fb_writes = [k \in 0 .. (w * h - 1) |-> <<>>]
      /\ rows_left = {}
      /\ w_row = [t \in 1 .. 1 |-> -1]
      /\ w_col = [t \in 1 .. 1 |-> 0]
      /\ pixels = [b \in 0 .. (w * h * 3 - 1) |-> 0]
      /\ px_writes = [b \in 0 .. (w * h * 3 - 1) |-> 0]
      /\ c_j = 0 /\ c_i = 0
      /\ running = FALSE /\ presents = 0 /\ frames = {}
      /\ t_orig = <<f_0, f_0, f_0>> /\ t_dir = <<f_0, f_0, f_0>>
      /\ t_st = [pos |-> <<f_0, f_0, f_0>>, i |-> 0, returned |-> FALSE]
      /\ t_evals = 0 /\ t_d = f_0 /\ t_at = <<f_0, f_0, f_0>> /\ t_nonneg = TRUE
      /\ t_result = "idle"

ConvertNext == ConvertPixel \/ ConvertNextRow \/ ConvertReturn

SpecConvert == ConvertInit /\ [][ConvertNext]_vars

(***************************************************************************)
(* sphere_trace on its own, called with one of the rays Ray_...            *)
(***************************************************************************)
TraceInit ==
  \E r \in { Ray_towards, Ray_away, Ray_still, Ray_inside, Ray_surface }, lib \in LibmModes :
    /\ libm = lib
    /\ t_orig = r[1] /\ t_dir = r[2]
    /\ t_st = [pos |-> r[1], i |-> 0, returned |-> FALSE]
    /\ t_evals = 0 /\ t_d = f_0 /\ t_at = r[1] /\ t_nonneg = TRUE
    /\ t_result = "running"
    /\ width = 0 /\ height = 0 /\ fov = main_fov
    /\ shaded = <<>> /\ colour = <<>>
    /\ pc = "idle"
    /\ threads = 1
    /\ framebuffer = <<>> /\ fb_writes = <<>> /\ fb_in = <<>>
    /\ rows_left = {}
    /\ w_row = [t \in 1 .. 1 |-> -1]
    /\ w_col = [t \in 1 .. 1 |-> 0]
    /\ pixels = <<>> /\ px_writes = <<>>
    /\ c_j = 0 /\ c_i = 0
    /\ running = FALSE /\ presents = 0 /\ frames = {}

\* the loop body after "float d = signed_distance(pos)" gave d and led the
\* loop to state st
TraceStep(d, st) ==
  /\ t_d' = d
  /\ t_st' = st
  /\ t_nonneg' = (t_nonneg /\ ~FLess(d, f_0))
  /\ t_result' = IF st.returned THEN "hit" ELSE "running"

TraceEval(d) == TraceStep(d, loop_body_with(t_st, t_dir, d))

\* one iteration of the for loop: the field is evaluated at pos, and the
\* function returns pos or moves on
TraceIterate ==
  /\ t_result = "running"
  /\ loop_continues(t_st.i)
  /\ TraceEval(signed_distance(t_st.pos, libm))
  /\ t_at' = t_st.pos
  /\ t_evals' = t_evals + 1
  /\ UNCHANGED << t_orig, t_dir, main_vars >>

\* i < 128 fails: return std::nullopt
TraceExhausted ==
  /\ t_result = "running"
  /\ ~loop_continues(t_st.i)
  /\ t_result' = "nohit"
  /\ UNCHANGED << t_orig, t_dir, t_st, t_evals, t_d, t_at, t_nonneg, main_vars >>

TraceNext == TraceIterate \/ TraceExhausted

\* what a step of sphere_trace does to t_evals and t_result: one more
\* evaluation, or the return of no-hit; enabled until it has returned
TraceProgress ==
  /\ t_result = "running"
  /\ t_evals' \in {t_evals, t_evals + 1}
  /\ t_result' \in {"running", "hit", "nohit"}

\* the thread that called sphere_trace keeps running it
SpecTrace == TraceInit /\ [][TraceNext]_vars /\ WF_<<t_evals, t_result>>(TraceProgress)


(***************************************************************************)
(* Properties                                                              *)
(***************************************************************************)
RenderReturned == pc \in {"convert", "sdl_init", "display", "exit"}
Converted == pc \in {"sdl_init", "display", "exit"}
IsRay(r) == t_result # "idle" /\ t_orig = r[1] /\ t_dir = r[2]
Traced == t_result # "idle" /\ t_evals > 0

\* C1: a call of render_framebuffer with width <= 0 or height <= 0 never
\* returns a framebuffer to main: it is rejected at the entry point.
C1_InvalidRejected == (width <= 0 \/ height <= 0) => ~RenderReturned

\* C2: every write to a framebuffer cell k comes from the pixel (i, j) with
\* i + j * width = k, 0 <= i < width, 0 <= j < height; no cell is written
\* twice, so no two pixels write the same cell; and once the workers have
\* joined, every cell 0 .. width * height - 1 has been written exactly once.
C2_OneWriterPerCell ==
  /\ DOMAIN fb_writes = Cells
  /\ \A k \in Cells :
       /\ Len(fb_writes[k]) <= 1
       /\ \A n \in 1 .. Len(fb_writes[k]) :
            /\ fb_writes[k][n].i \in 0 .. (width - 1)
            /\ fb_writes[k][n].j \in 0 .. (height - 1)
            /\ fb_writes[k][n].i + fb_writes[k][n].j * width = k
  /\ RenderReturned => \A k \in Cells : Len(fb_writes[k]) = 1

C2_Witness ==
  /\ pc = "convert"
  /\ width >= 2 /\ height >= 2
  /\ \E k1, k2 \in Cells :
       /\ Len(fb_writes[k1]) = 1 /\ Len(fb_writes[k2]) = 1
       /\ fb_writes[k1][1].t # fb_writes[k2][1].t

\* the pixel buffer a sequential run computes from the arguments alone
expected_pixels ==
  [b \in Bytes |-> to_byte(colour[<<(b \div 3) % width, (b \div 3) \div width>>][(b % 3) + 1])]

\* C3: whatever the interleaving of the workers, the pixel buffer that
\* convert_framebuffer_to_pixels returns after render_framebuffer is the one
\* determined by (width, height, fov).
C3_Deterministic == Converted => pixels = expected_pixels

C3_Witness ==
  /\ pc = "sdl_init"
  /\ width * height >= 4
  /\ \E k1, k2 \in Cells :
       /\ fb_writes[k1][1].t = 1 /\ fb_writes[k2][1].t = 2
       /\ k2 < k1

\* C4: sphere_trace evaluates signed_distance at most 128 times, returns a
\* hit (the position where d < 0 was found) or no-hit, returns no-hit only
\* after 128 evaluations none of which gave d < 0, and always returns.
C4_Terminates ==
  /\ [](t_result # "idle" =>
          /\ t_evals <= 128
          /\ t_result \in {"running", "hit", "nohit"}
          /\ t_result = "nohit" => t_evals = 128 /\ t_nonneg
          /\ t_result = "hit" => FLess(t_d, f_0) /\ t_st.pos = t_at)
  /\ <>(t_result \in {"hit", "nohit"})

C4_Witness == t_dir = <<f_0, f_0, f_0>> /\ t_result = "nohit" /\ t_evals = 128 /\ t_st.pos = t_orig

\* C5: the ray from (0, 0, 3) along (0, 0, -1) returns a hit, at a position
\* with d < 0, before its 128 evaluations are used up.
C5_TowardsHits ==
  IsRay(Ray_towards) =>
    \/ t_result = "running" /\ t_evals < 128
    \/ t_result = "hit" /\ t_evals <= 128 /\ FLess(t_d, f_0)

C5_Witness == IsRay(Ray_towards) /\ t_result = "hit" /\ FLess(t_st.pos[3], f_3)

\* C6: the ray from (0, 0, 3) along (0, 0, 1) never finds d < 0, never moves
\* closer to the centre than 3, and returns no-hit after 128 evaluations.
C6_AwayMisses ==
  IsRay(Ray_away) =>
    /\ t_nonneg
    /\ t_result \in {"running", "nohit"}
    /\ ~FLess(t_st.pos[3], f_3)
    /\ t_result = "nohit" => t_evals = 128

C6_Witness == IsRay(Ray_away) /\ t_result = "nohit" /\ t_evals = 128 /\ FLess(f_0, t_d)

\* the byte b is trunc(clamp(v, 0, 255)) for the float v
IsTruncOf(b, v) ==
  /\ b \in 0 .. 255
  /\ ~FLess(f_0, v) => b = 0
  /\ ~FLess(v, f_255) => b = 255
  /\ (FLess(f_0, v) /\ FLess(v, f_255)) => (~FLess(v, FromInt(b)) /\ FLess(v, FromInt(b + 1)))

\* the byte b is trunc(clamp(c * 255, 0, 255)) for the channel value c
IsByteOf(b, c) == IsTruncOf(b, FMul(c, f_255))

\* C7: the buffer convert_framebuffer_to_pixels returns has the bytes
\* 0 .. width * height * 3 - 1; the bytes at 3 * (j * width + i) + 0, 1, 2
\* are trunc(clamp(c * 255, 0, 255)) of the channels c of framebuffer cell
\* i + j * width, so they are in 0 .. 255 and a function of the input; and
\* the framebuffer is the one the function was called with.
C7_Encoding ==
  Converted =>
    /\ DOMAIN pixels = 0 .. (width * height * 3 - 1)
    /\ \A i \in 0 .. (width - 1), j \in 0 .. (height - 1), ch \in 0 .. 2 :
         IsByteOf(pixels[3 * (j * width + i) + ch], fb_in[i + j * width][ch + 1])
    /\ framebuffer = fb_in

C7_Witness ==
  /\ pc = "sdl_init"
  /\ width = 2 /\ height = 2
  /\ framebuffer[1] = << <<-8388608, -24>>, f_0, <<12582912, -23>> >>
  /\ framebuffer[2] = << f_1, <<16760439, -24>>, <<8589935, -31>> >>
  /\ framebuffer[3] = background
  /\ pixels[3] = 0 /\ pixels[4] = 0 /\ pixels[5] = 255
  /\ pixels[6] = 255 /\ pixels[7] = 254 /\ pixels[8] = 1
  /\ pixels[9] = 76 /\ pixels[10] = 229 /\ pixels[11] = 51

\* C8: when a pixel buffer has been handed to the display, every
\* framebuffer cell had been written by a worker and every byte by the
\* conversion, framebuffer and pixels are as they were then, and every frame
\* presented is that one buffer.
C8_CompleteFrames ==
  presents > 0 =>
    /\ \A k \in Cells : Len(fb_writes[k]) = 1
    /\ DOMAIN pixels = Bytes
    /\ \A b \in Bytes : px_writes[b] = 1
    /\ framebuffer = fb_in
    /\ frames = {pixels}

C8_Witness == presents >= 2 /\ width * height >= 2 /\ pc = "exit"

\* the pixel <<i, j>> whose colour cell k holds, and what the loop body had
\* at hand for it
WrittenBy(k) == shaded[<< fb_writes[k][Len(fb_writes[k])].i, fb_writes[k][Len(fb_writes[k])].j >>]

\* max(0.4, dot(light_dir, normal))
Intensity(light_dir, normal) ==
  IF FLess(ambient, vec3f_dot(light_dir, normal)) THEN vec3f_dot(light_dir, normal) ELSE ambient

\* c is the gray of intensity max(0.4, dot(light_dir, normal)), within
\* [0.4, top], and is 0.4 for the zero normal
IsShaded(c, light_dir, normal, top) ==
  /\ c[1] = c[2] /\ c[2] = c[3]
  /\ c[1] = Intensity(light_dir, normal)
  /\ ~FLess(c[1], ambient) /\ ~FLess(top, c[1])
  /\ normal = <<f_0, f_0, f_0>> => c[1] = ambient
  /\ vec3f_scale(<<f_1, f_1, f_1>>, light_intensity(light_dir, vec3f_normalize(<<f_0, f_0, f_0>>)))
       = <<ambient, ambient, ambient>>

\* The framebuffer has width * height cells, all written once when
\* render_framebuffer returns.  A cell written for a pixel on which
\* sphere_trace returned a position is the gray of intensity
\* max(0.4, dot(light_dir, normal)) within [0.4, top]; a cell written for a
\* pixel on which it returned nullopt is the background (0.3, 0.9, 0.2).
PixelShapes(top) ==
  /\ pc # "main" => DOMAIN framebuffer = 0 .. (width * height - 1)
  /\ RenderReturned => \A k \in Cells : Len(fb_writes[k]) = 1
  /\ \A k \in Cells :
       Len(fb_writes[k]) > 0 =>
         IF WrittenBy(k).hit.some
         THEN IsShaded(framebuffer[k], WrittenBy(k).light_dir, WrittenBy(k).normal, top)
         ELSE framebuffer[k] = background

\* 1 + 2^-20
f_1_above == <<8388616, -23>>

\* C9 as stated: render_framebuffer returns width * height pixels; on a hit
\* of the ray marcher the pixel is the gray of intensity
\* max(0.4, dot(light_dir, normal)) and lies in [0.4, 1.0], 0.4 for the zero
\* normal; on no-hit it is the background (0.3, 0.9, 0.2).
C9_PixelShapes_AtMostOne == PixelShapes(f_1)

\* C9: render_framebuffer returns width * height pixels; on a hit of the
\* ray marcher the pixel is the gray of intensity
\* max(0.4, dot(light_dir, normal)), which is at least 0.4 and, not being
\* clamped, at most 1 + 2^-20, 0.4 for the zero normal; on no-hit it is the
\* background (0.3, 0.9, 0.2).
C9_PixelShapes == PixelShapes(f_1_above)

\* render_framebuffer has returned an image with a hit pixel brighter than 1
\* and a hit pixel whose dot product, below 0.4, was raised to 0.4
C9_Witness ==
  /\ RenderReturned
  /\ \E k1, k2 \in Cells :
       /\ WrittenBy(k1).hit.some
       /\ FLess(f_1, framebuffer[k1][1])
       /\ framebuffer[k1][1] = vec3f_dot(WrittenBy(k1).light_dir, WrittenBy(k1).normal)
       /\ WrittenBy(k2).hit.some
       /\ FLess(vec3f_dot(WrittenBy(k2).light_dir, WrittenBy(k2).normal), ambient)
       /\ framebuffer[k2] = <<ambient, ambient, ambient>>

\* C10 as stated: at a visited position with d <= 0, d = 0 included,
\* sphere_trace has stopped and returned that position.
C10_StopsAtNonPositive ==
  (Traced /\ ~FLess(f_0, t_d)) => (t_result = "hit" /\ t_st.pos = t_at)

\* C10: sphere_trace stops at the first visited position with d < 0 and
\* returns it; at a position with d >= 0, d = 0 included, it does not stop
\* but moves on by dir * max(0.1 * d, 0.01).
C10_StopsAtNegative ==
  /\ t_result = "running" => t_nonneg
  /\ (Traced /\ FLess(t_d, f_0)) => (t_result = "hit" /\ t_st.pos = t_at)
  /\ (Traced /\ ~FLess(t_d, f_0)) =>
       /\ t_result # "hit"
       /\ t_st.pos = vec3f_add(t_at, vec3f_scale(t_dir, FMax(FMul(t_d, march_factor), march_floor)))

C10_Witness == Traced /\ t_d = f_0 /\ t_result = "running" /\ t_st.pos # t_at
====
